---- MODULE Spec2Model ----
(***************************************************************************)
(* Model of the SEO audit checklist: the scoring engine (lib/scoring), the *)
(* check registry (types/audit) and the audit page that feeds the engine:  *)
(* its registry for the brand types, its status map, its wizard steps and  *)
(* its memoised scores.                                                    *)
(*                                                                         *)
(* JavaScript numbers are IEEE-754 doubles.  The engine divides, multiplies*)
(* and adds them before Math.round, so the model carries doubles exactly:  *)
(* a finite double is a record [sig, exp] standing for sig * 2^exp, where   *)
(* sig is a natural number of at most MantBits bits held as a little-endian*)
(* sequence of base-2^13 digits; its field kind tells it from NaN and      *)
(* Infinity.  Every operation computes the exact result and rounds it to   *)
(* nearest, ties to even, as the hardware does.  No number of the engine   *)
(* is negative.                                                            *)
(***************************************************************************)
EXTENDS Integers, Sequences, FiniteSets, TLC

VARIABLES CATEGORIES, checkStatuses, rendered, categoryScores, overallScore,
          scoreArg, rating, calls, currentStep, brandTypes,
          checkNotes, checkLinks, csv, isGeneratingPdf, pdfPc,
          request, postPc, html, fetchError, result, response, presses

NoPresses == [kept |-> FALSE, last |-> <<>>]

\* the annotations of the checks and the exported rows
annotationVars == <<checkNotes, checkLinks, csv>>

\* the PDF download of the results screen
pdfVars == <<isGeneratingPdf, pdfPc>>

\* the analyzer endpoint: one request and its handling
analyzerVars == <<request, postPc, html, fetchError, result, response>>

vars == <<CATEGORIES, checkStatuses, rendered, categoryScores, overallScore,
          scoreArg, rating, calls, currentStep, brandTypes,
          annotationVars, pdfVars, analyzerVars, presses>>

\* ------------------------------------------------------------------------
\* Natural numbers of arbitrary size (digits little-endian, base 2^13)
\* ------------------------------------------------------------------------
DigitBits == 13

Base == 2^DigitBits

\* significand width of a JavaScript number (IEEE-754 binary64)
MantBits == 53

RECURSIVE Pow2(_)
Pow2(k) == IF k = 0 THEN 1 ELSE 2 * Pow2(k - 1)

RECURSIVE Zeros(_)
Zeros(k) == IF k = 0 THEN <<>> ELSE <<0>> \o Zeros(k - 1)

RECURSIVE BigTrim(_)
BigTrim(n) ==
  IF n = <<>> THEN <<>>
  ELSE IF n[Len(n)] = 0 THEN BigTrim(SubSeq(n, 1, Len(n) - 1)) ELSE n

RECURSIVE IntToBig(_)
IntToBig(v) == IF v = 0 THEN <<>> ELSE <<v % Base>> \o IntToBig(v \div Base)

RECURSIVE BigToInt(_)
BigToInt(n) == IF n = <<>> THEN 0 ELSE Head(n) + Base * BigToInt(Tail(n))

\* n * w + carry, for a small multiplier w
RECURSIVE BigMulSmall(_, _, _)
BigMulSmall(n, w, carry) ==
  IF n = <<>>
  THEN IntToBig(carry)
  ELSE LET v == Head(n) * w + carry
       IN  <<v % Base>> \o BigMulSmall(Tail(n), w, v \div Base)

RECURSIVE BigAdd(_, _, _)
BigAdd(a, b, carry) ==
  IF a = <<>> /\ b = <<>>
  THEN IntToBig(carry)
  ELSE LET da == IF a = <<>> THEN 0 ELSE Head(a)
           db == IF b = <<>> THEN 0 ELSE Head(b)
           v  == da + db + carry
       IN  <<v % Base>> \o BigAdd(IF a = <<>> THEN <<>> ELSE Tail(a),
                                  IF b = <<>> THEN <<>> ELSE Tail(b),
                                  v \div Base)

\* long division of the digits n[1..i] (with incoming remainder r) by a small b
RECURSIVE BigDivFrom(_, _, _, _)
BigDivFrom(n, b, i, r) ==
  IF i = 0
  THEN [q |-> <<>>, r |-> r]
  ELSE LET v    == r * Base + n[i]
           rest == BigDivFrom(n, b, i - 1, v % b)
       IN  [q |-> Append(rest.q, v \div b), r |-> rest.r]

BigDivSmall(n, b) == BigDivFrom(n, b, Len(n), 0)

RECURSIVE SmallBitLen(_)
SmallBitLen(d) == IF d = 0 THEN 0 ELSE 1 + SmallBitLen(d \div 2)

BigBitLen(n) ==
  LET t == BigTrim(n)
  IN  IF t = <<>> THEN 0 ELSE (Len(t) - 1) * DigitBits + SmallBitLen(t[Len(t)])

BigIsOdd(n) == n # <<>> /\ Head(n) % 2 = 1

BigShiftLeft(n, k) == Zeros(k \div DigitBits) \o BigMulSmall(n, Pow2(k % DigitBits), 0)

\* n shifted right by k bits; lost tells whether a non-zero bit was dropped
BigShiftRight(n, k) ==
  LET drop == k \div DigitBits
      kept == IF drop >= Len(n) THEN <<>> ELSE SubSeq(n, drop + 1, Len(n))
      gone == IF drop >= Len(n) THEN n ELSE SubSeq(n, 1, drop)
      d    == BigDivSmall(kept, Pow2(k % DigitBits))
  IN  [q |-> BigTrim(d.q),
       lost |-> d.r # 0 \/ \E j \in 1..Len(gone) : gone[j] # 0]

\* ------------------------------------------------------------------------
\* IEEE-754 doubles
\* ------------------------------------------------------------------------
\* the exact value n * 2^exp (plus a non-zero tail below it when sticky),
\* rounded to MantBits significant bits, nearest with ties to even
RoundToDouble(n, exp, sticky) ==
  LET len == BigBitLen(n)
  IN  IF len <= MantBits
      THEN [sig |-> BigTrim(n), exp |-> exp, kind |-> "finite"]
      ELSE LET k     == len - MantBits
               s1    == BigShiftRight(n, k - 1)
               q     == BigShiftRight(s1.q, 1).q
               up    == BigIsOdd(s1.q) /\ (s1.lost \/ sticky \/ BigIsOdd(q))
           IN  [sig |-> IF up THEN BigTrim(BigAdd(q, <<1>>, 0)) ELSE q,
                exp |-> exp + k, kind |-> "finite"]

DblFromInt(v) == [sig |-> IntToBig(v), exp |-> 0, kind |-> "finite"]

\* the results of 0 / 0 and of x / 0 for x > 0
DblNaN == [sig |-> <<>>, exp |-> 0, kind |-> "NaN"]

DblInfinity == [sig |-> <<>>, exp |-> 0, kind |-> "Infinity"]

\* x * w for an integer-valued w >= 0
DblMulInt(x, w) ==
  IF x.kind = "NaN" THEN DblNaN
  ELSE IF x.kind = "Infinity" THEN (IF w = 0 THEN DblNaN ELSE DblInfinity)
  ELSE RoundToDouble(BigMulSmall(x.sig, w, 0), x.exp, FALSE)

\* x / b for an integer-valued b >= 0: the dividend is first extended by whole
\* zero digits until the quotient has more than MantBits bits
DblDivInt(x, b) ==
  IF x.kind = "NaN" THEN DblNaN
  ELSE IF b = 0 THEN (IF x.kind = "finite" /\ x.sig = <<>> THEN DblNaN ELSE DblInfinity)
  ELSE IF x.kind = "Infinity" \/ x.sig = <<>> THEN x
  ELSE LET need  == (MantBits + 2 + SmallBitLen(b)) - BigBitLen(x.sig)
           digs  == IF need <= 0 THEN 0 ELSE (need + DigitBits - 1) \div DigitBits
           d     == BigDivSmall(Zeros(digs) \o x.sig, b)
       IN  RoundToDouble(d.q, x.exp - digs * DigitBits, d.r # 0)

DblAdd(x, y) ==
  IF x.kind = "NaN" \/ y.kind = "NaN" THEN DblNaN
  ELSE IF x.kind = "Infinity" \/ y.kind = "Infinity" THEN DblInfinity
  ELSE IF x.sig = <<>> THEN y
  ELSE IF y.sig = <<>> THEN x
  ELSE LET e == IF x.exp < y.exp THEN x.exp ELSE y.exp
       IN  RoundToDouble(BigAdd(BigShiftLeft(x.sig, x.exp - e),
                                BigShiftLeft(y.sig, y.exp - e), 0), e, FALSE)

\* Math.round of a finite x: the nearest integer, a tie going to the larger one
MathRound(x) ==
  IF x.exp >= 0
  THEN BigToInt(BigShiftLeft(x.sig, x.exp))
  ELSE (BigToInt(BigShiftRight(x.sig, (0 - x.exp) - 1).q) + 1) \div 2

\* ------------------------------------------------------------------------
\* The scoring engine
\* ------------------------------------------------------------------------
\* a result of type number | null: <<>> is null, <<n>> the number n
Null == <<>>

Num(n) == <<n>>

\* a number that is not finite (NaN or Infinity): a pair, equal to no Num(n)
NonFinite(kind) == <<kind, kind>>

\* Math.round(x) as a number: NaN and Infinity round to themselves
MathRoundNumber(x) == IF x.kind = "finite" THEN Num(MathRound(x)) ELSE NonFinite(x.kind)

\* a number read back into arithmetic
DblFromNumber(r) ==
  IF Len(r) = 1 THEN DblFromInt(r[1])
  ELSE IF r[1] = "NaN" THEN DblNaN ELSE DblInfinity

importanceMultipliers(importance) ==
  CASE importance = "critical" -> 4
    [] importance = "high"     -> 3
    [] importance = "medium"   -> 2
    [] importance = "low"      -> 1

\* mutant: the two status scores exchanged
statusScores_Swapped(status) ==
  CASE status = "pass" -> 0
    [] status = "fail" -> 1

statusScores(status) ==
  CASE status = "pass" -> 1
    [] status = "fail" -> 0

\* checkStatuses[check.id]: a key that is not in the object reads as undefined
StatusOf(statuses, id) ==
  IF id \in DOMAIN statuses THEN statuses[id] ELSE "undefined"

\* status === null || status === undefined
NotAnswered(status) == status = "null" \/ status = "undefined"

\* mutant: only a missing key is skipped; a null entry is counted as answered
\* and earns nothing
CategoryLoopBody_NullAnswered(acc, check, statuses) ==
  LET status == StatusOf(statuses, check.id)
  IN  IF status = "undefined"
      THEN acc
      ELSE LET weight == importanceMultipliers(check.importance)
               score  == IF status = "pass" THEN 1 ELSE 0
           IN  [totalWeight        |-> acc.totalWeight + weight,
                earnedWeight       |-> acc.earnedWeight + weight * score,
                hasCompletedChecks |-> TRUE]

\* mutant: totalWeight collects the failed checks only
CategoryLoopBody_FailedTotal(acc, check, statuses) ==
  LET status == StatusOf(statuses, check.id)
  IN  IF NotAnswered(status)
      THEN acc
      ELSE LET weight == importanceMultipliers(check.importance)
               score  == statusScores(status)
           IN  [totalWeight        |-> acc.totalWeight + weight * (1 - score),
                earnedWeight       |-> acc.earnedWeight + weight * score,
                hasCompletedChecks |-> TRUE]

\* one iteration of the loop over the checks of a category
CategoryLoopBody(acc, check, statuses) ==
  LET status == StatusOf(statuses, check.id)
  IN  IF NotAnswered(status)
      THEN acc
      ELSE LET weight == importanceMultipliers(check.importance)
               score  == statusScores(status)
           IN  [totalWeight        |-> acc.totalWeight + weight,
                earnedWeight       |-> acc.earnedWeight + weight * score,
                hasCompletedChecks |-> TRUE]

RECURSIVE CategoryLoop(_, _, _, _)
CategoryLoop(checks, statuses, i, acc) ==
  IF i > Len(checks)
  THEN acc
  ELSE CategoryLoop(checks, statuses, i + 1,
                    CategoryLoopBody(acc, checks[i], statuses))

\* mutant: a falsy earnedWeight is taken for "nothing completed"
CategoryResult_ZeroIsNull(acc) ==
  IF ~acc.hasCompletedChecks \/ acc.earnedWeight = 0
  THEN Null
  ELSE MathRoundNumber(DblMulInt(DblDivInt(DblFromInt(acc.earnedWeight),
                                            acc.totalWeight), 100))

\* Math.round((earnedWeight / totalWeight) * 100)
CategoryResult(acc) ==
  IF ~acc.hasCompletedChecks \/ acc.totalWeight = 0
  THEN Null
  ELSE MathRoundNumber(DblMulInt(DblDivInt(DblFromInt(acc.earnedWeight),
                                            acc.totalWeight), 100))

\* mutant: the answered entries of the status map that belong to no check of
\* the list are counted too, each with the multiplier 1
calculateCategoryScore_OverKeys(checks, statuses) ==
  LET acc     == CategoryLoop(checks, statuses, 1,
                   [totalWeight |-> 0, earnedWeight |-> 0,
                    hasCompletedChecks |-> FALSE])
      foreign == {k \in DOMAIN statuses :
                    /\ statuses[k] # "null"
                    /\ \A j \in DOMAIN checks : checks[j].id # k}
  IN  CategoryResult(
        [totalWeight        |-> acc.totalWeight + Cardinality(foreign),
         earnedWeight       |-> acc.earnedWeight
                                  + Cardinality({k \in foreign : statuses[k] = "pass"}),
         hasCompletedChecks |-> acc.hasCompletedChecks \/ foreign # {}])

\* mutant: totalWeight is kept outside the function and never reset, so a
\* call starts from the total its earlier calls on the same inputs left
calculateCategoryScore_TotalKept(checks, statuses) ==
  LET once == CategoryLoop(checks, statuses, 1,
                [totalWeight |-> 0, earnedWeight |-> 0,
                 hasCompletedChecks |-> FALSE])
  IN  CategoryResult([once EXCEPT !.totalWeight = (calls + 1) * once.totalWeight])

calculateCategoryScore(checks, statuses) ==
  CategoryResult(CategoryLoop(checks, statuses, 1,
                 [totalWeight |-> 0, earnedWeight |-> 0,
                  hasCompletedChecks |-> FALSE]))

\* mutant: a category without a score is counted with the score 0
OverallLoopBody_CountsUnscored(acc, category, statuses) ==
  LET categoryScore == calculateCategoryScore(category.checks, statuses)
      value         == IF categoryScore # Null THEN categoryScore[1] ELSE 0
  IN  [totalWeight   |-> acc.totalWeight + category.weight,
       weightedScore |-> DblAdd(acc.weightedScore,
                           DblMulInt(DblDivInt(DblFromInt(value), 100),
                                     category.weight)),
       hasScores     |-> acc.hasScores \/ categoryScore # Null]

\* mutant: the share categoryScore / 100 is accumulated without the weight
OverallLoopBody_UnweightedShare(acc, category, statuses) ==
  LET categoryScore == calculateCategoryScore(category.checks, statuses)
  IN  IF categoryScore # Null
      THEN [totalWeight   |-> acc.totalWeight + category.weight,
            weightedScore |-> DblAdd(acc.weightedScore,
                                DblDivInt(DblFromNumber(categoryScore), 100)),
            hasScores     |-> TRUE]
      ELSE acc

\* mutant: totalWeight counts the scored categories instead of their weights
OverallLoopBody_CountsCategories(acc, category, statuses) ==
  LET categoryScore == calculateCategoryScore(category.checks, statuses)
  IN  IF categoryScore # Null
      THEN [totalWeight   |-> acc.totalWeight + 1,
            weightedScore |-> DblAdd(acc.weightedScore,
                                DblMulInt(DblDivInt(DblFromNumber(categoryScore), 100),
                                          category.weight)),
            hasScores     |-> TRUE]
      ELSE acc

\* mutant: the failed share 100 - categoryScore is accumulated
OverallLoopBody_FailedShare(acc, category, statuses) ==
  LET categoryScore == calculateCategoryScore(category.checks, statuses)
  IN  IF categoryScore # Null
      THEN [totalWeight   |-> acc.totalWeight + category.weight,
            weightedScore |-> DblAdd(acc.weightedScore,
                                DblMulInt(DblDivInt(DblFromInt(100 - categoryScore[1]), 100),
                                          category.weight)),
            hasScores     |-> TRUE]
      ELSE acc

\* one iteration of the loop over the categories
OverallLoopBody(acc, category, statuses) ==
  LET categoryScore == calculateCategoryScore(category.checks, statuses)
  IN  IF categoryScore # Null
      THEN [totalWeight   |-> acc.totalWeight + category.weight,
            weightedScore |-> DblAdd(acc.weightedScore,
                                DblMulInt(DblDivInt(DblFromNumber(categoryScore), 100),
                                          category.weight)),
            hasScores     |-> TRUE]
      ELSE acc

RECURSIVE OverallLoop(_, _, _, _)
OverallLoop(categories, statuses, i, acc) ==
  IF i > Len(categories)
  THEN acc
  ELSE OverallLoop(categories, statuses, i + 1,
                   OverallLoopBody(acc, categories[i], statuses))

\* mutant: the guard tests weightedScore instead of totalWeight
OverallResult_ZeroScoreIsNull(acc) ==
  IF ~acc.hasScores \/ acc.weightedScore.sig = <<>> \/ acc.totalWeight = 0
  THEN Null
  ELSE MathRoundNumber(DblMulInt(DblDivInt(acc.weightedScore, acc.totalWeight), 100))

\* mutant: the guard does not test totalWeight
OverallResult_NoZeroGuard(acc) ==
  IF ~acc.hasScores
  THEN Null
  ELSE MathRoundNumber(DblMulInt(DblDivInt(acc.weightedScore, acc.totalWeight), 100))

\* Math.round((weightedScore / totalWeight) * 100)
OverallResult(acc) ==
  IF ~acc.hasScores \/ acc.totalWeight = 0
  THEN Null
  ELSE MathRoundNumber(DblMulInt(DblDivInt(acc.weightedScore, acc.totalWeight), 100))

calculateOverallScore(categories, statuses) ==
  OverallResult(OverallLoop(categories, statuses, 1,
                [totalWeight |-> 0, weightedScore |-> DblFromInt(0),
                 hasScores |-> FALSE]))

\* mutant: Good is given the warning role
getScoreRating_GoodWarns(score) ==
  IF score >= 80
  THEN [label |-> "Excellent", color |-> "var(--success)", bgColor |-> "var(--success-light)"]
  ELSE IF score >= 60
  THEN [label |-> "Good", color |-> "var(--warning)", bgColor |-> "var(--warning-light)"]
  ELSE IF score >= 40
  THEN [label |-> "Needs Improvement", color |-> "var(--warning)", bgColor |-> "var(--warning-light)"]
  ELSE [label |-> "Poor", color |-> "var(--error)", bgColor |-> "var(--error-light)"]

\* mutant: the lower bounds are exclusive
getScoreRating_Strict(score) ==
  IF score > 80
  THEN [label |-> "Excellent", color |-> "var(--success)", bgColor |-> "var(--success-light)"]
  ELSE IF score > 60
  THEN [label |-> "Good", color |-> "var(--success)", bgColor |-> "var(--success-light)"]
  ELSE IF score > 40
  THEN [label |-> "Needs Improvement", color |-> "var(--warning)", bgColor |-> "var(--warning-light)"]
  ELSE [label |-> "Poor", color |-> "var(--error)", bgColor |-> "var(--error-light)"]

getScoreRating(score) ==
  IF score >= 80
  THEN [label |-> "Excellent", color |-> "var(--success)", bgColor |-> "var(--success-light)"]
  ELSE IF score >= 60
  THEN [label |-> "Good", color |-> "var(--success)", bgColor |-> "var(--success-light)"]
  ELSE IF score >= 40
  THEN [label |-> "Needs Improvement", color |-> "var(--warning)", bgColor |-> "var(--warning-light)"]
  ELSE [label |-> "Poor", color |-> "var(--error)", bgColor |-> "var(--error-light)"]

\* ------------------------------------------------------------------------
\* Registries
\* ------------------------------------------------------------------------
TECHNICAL_CHECKS ==
  <<
     [id |-> "robots-txt", importance |-> "critical"],
     [id |-> "robots-txt-blocking", importance |-> "critical"],
     [id |-> "sitemap-exists", importance |-> "critical"],
     [id |-> "internal-404s", importance |-> "critical"],
     [id |-> "missing-meta-titles", importance |-> "critical"],
     [id |-> "noindex-key-pages", importance |-> "critical"],
     [id |-> "js-dependency", importance |-> "critical"],
     [id |-> "sitemap-errors", importance |-> "high"],
     [id |-> "soft-404s", importance |-> "high"],
     [id |-> "duplicate-meta-titles", importance |-> "high"],
     [id |-> "internal-redirects", importance |-> "high"],
     [id |-> "crawl-depth", importance |-> "high"],
     [id |-> "mixed-content", importance |-> "high"],
     [id |-> "ai-crawlers-blocked", importance |-> "high"],
     [id |-> "sitemap-structure", importance |-> "medium"],
     [id |-> "5xx-errors", importance |-> "medium"],
     [id |-> "duplicate-meta-descriptions", importance |-> "medium"],
     [id |-> "missing-meta-descriptions", importance |-> "medium"],
     [id |-> "redirect-chains", importance |-> "medium"],
     [id |-> "missing-hsts-header", importance |-> "medium"],
     [id |-> "self-referencing-canonicals", importance |-> "medium"],
     [id |-> "canonical-conflicts", importance |-> "medium"],
     [id |-> "orphan-pages", importance |-> "medium"],
     [id |-> "organisation-schema", importance |-> "medium"],
     [id |-> "placeholder-text", importance |-> "medium"],
     [id |-> "sitemap-in-robots", importance |-> "low"],
     [id |-> "https-consistency", importance |-> "low"],
     [id |-> "www-consistency", importance |-> "low"]
  >>

AUTHORITY_CHECKS ==
  <<
     [id |-> "dr-growth", importance |-> "critical"],
     [id |-> "natural-link-profile", importance |-> "critical"],
     [id |-> "anchor-text-distribution", importance |-> "high"],
     [id |-> "high-authority-backlinks", importance |-> "medium"],
     [id |-> "referring-domains-growth", importance |-> "medium"],
     [id |-> "spam-score", importance |-> "medium"]
  >>

ON_PAGE_CHECKS ==
  <<
     [id |-> "meta-titles", importance |-> "critical"],
     [id |-> "h1-tags", importance |-> "critical"],
     [id |-> "missing-h1-tag", importance |-> "high"],
     [id |-> "url-structure", importance |-> "medium"],
     [id |-> "image-alt-text", importance |-> "medium"],
     [id |-> "meta-descriptions", importance |-> "medium"],
     [id |-> "internal-linking", importance |-> "medium"],
     [id |-> "image-file-names", importance |-> "low"],
     [id |-> "pagination-check", importance |-> "low"]
  >>

EEAT_CHECKS ==
  <<
     [id |-> "about-page-exists", importance |-> "critical"],
     [id |-> "about-page-details", importance |-> "high"],
     [id |-> "author-bios", importance |-> "high"],
     [id |-> "date-published-updated", importance |-> "high"],
     [id |-> "reviews-page", importance |-> "high"],
     [id |-> "reviews-banner", importance |-> "high"],
     [id |-> "privacy-policy", importance |-> "high"],
     [id |-> "optimised-404-page", importance |-> "high"],
     [id |-> "author-profile-pages", importance |-> "medium"],
     [id |-> "person-schema", importance |-> "medium"],
     [id |-> "reviews-rating", importance |-> "medium"],
     [id |-> "terms-conditions", importance |-> "medium"],
     [id |-> "social-media-links", importance |-> "medium"],
     [id |-> "favicon", importance |-> "medium"],
     [id |-> "contact-us-page", importance |-> "medium"],
     [id |-> "copyright-date", importance |-> "low"]
  >>

SOCIAL_SEARCH_CHECKS ==
  <<
     [id |-> "tiktok-active", importance |-> "high"],
     [id |-> "youtube-active", importance |-> "high"],
     [id |-> "instagram-active", importance |-> "high"],
     [id |-> "social-engagement", importance |-> "high"],
     [id |-> "open-graph-tags", importance |-> "medium"],
     [id |-> "pinterest-active", importance |-> "medium"],
     [id |-> "consistent-handles", importance |-> "medium"]
  >>

AI_SEARCH_CHECKS ==
  <<
     [id |-> "clear-direct-answers", importance |-> "critical"],
     [id |-> "content-freshness", importance |-> "high"],
     [id |-> "faq-sections", importance |-> "medium"],
     [id |-> "structured-data-coverage", importance |-> "medium"],
     [id |-> "comprehensive-topic-coverage", importance |-> "medium"],
     [id |-> "original-research", importance |-> "medium"],
     [id |-> "citation-ready-formatting", importance |-> "medium"],
     [id |-> "entity-recognition", importance |-> "medium"]
  >>

PERFORMANCE_CHECKS ==
  <<
     [id |-> "lcp", importance |-> "critical"],
     [id |-> "inp", importance |-> "critical"],
     [id |-> "cls", importance |-> "critical"],
     [id |-> "uncompressed-html", importance |-> "critical"],
     [id |-> "mobile-page-speed", importance |-> "high"],
     [id |-> "desktop-page-speed", importance |-> "high"],
     [id |-> "mobile-responsiveness", importance |-> "high"],
     [id |-> "ttfb", importance |-> "medium"],
     [id |-> "image-optimisation", importance |-> "medium"],
     [id |-> "render-blocking-resources", importance |-> "medium"],
     [id |-> "gzip-compression", importance |-> "medium"],
     [id |-> "carbon-footprint", importance |-> "medium"]
  >>

ECOMMERCE_COLLECTION_CHECKS ==
  <<
     [id |-> "collection-product-carousels", importance |-> "critical"],
     [id |-> "collection-filter-canonicals", importance |-> "critical"],
     [id |-> "collection-h1-optimised", importance |-> "critical"],
     [id |-> "collection-navigation-access", importance |-> "critical"],
     [id |-> "collection-cls", importance |-> "high"],
     [id |-> "collection-url-structure", importance |-> "high"],
     [id |-> "collection-product-ctas", importance |-> "high"],
     [id |-> "collection-h1-description", importance |-> "medium"],
     [id |-> "collection-carousel-alt-text", importance |-> "medium"],
     [id |-> "collection-breadcrumbs", importance |-> "medium"],
     [id |-> "collection-faqs", importance |-> "medium"],
     [id |-> "collection-reviews-banner", importance |-> "medium"]
  >>

ECOMMERCE_PRODUCT_CHECKS ==
  <<
     [id |-> "product-pricing", importance |-> "critical"],
     [id |-> "product-schema", importance |-> "critical"],
     [id |-> "product-stock-availability", importance |-> "high"],
     [id |-> "product-review-rating", importance |-> "high"],
     [id |-> "product-specs-features", importance |-> "high"],
     [id |-> "product-return-policy", importance |-> "high"],
     [id |-> "product-shipping", importance |-> "high"],
     [id |-> "product-merchant-center", importance |-> "high"],
     [id |-> "product-cls", importance |-> "high"],
     [id |-> "product-image-quality", importance |-> "high"],
     [id |-> "product-image-alt-text", importance |-> "medium"],
     [id |-> "product-warranty", importance |-> "medium"],
     [id |-> "product-contact-info", importance |-> "medium"]
  >>

LOCAL_GBP_CHECKS ==
  <<
     [id |-> "gbp-verified", importance |-> "critical"],
     [id |-> "gbp-business-name", importance |-> "critical"],
     [id |-> "gbp-address", importance |-> "critical"],
     [id |-> "gbp-phone", importance |-> "critical"],
     [id |-> "gbp-website", importance |-> "critical"],
     [id |-> "gbp-primary-category", importance |-> "critical"],
     [id |-> "gbp-reviews-answered", importance |-> "critical"],
     [id |-> "gbp-working-hours", importance |-> "high"],
     [id |-> "gbp-secondary-categories", importance |-> "high"],
     [id |-> "gbp-description", importance |-> "high"],
     [id |-> "gbp-logo", importance |-> "high"],
     [id |-> "gbp-cover-image", importance |-> "high"],
     [id |-> "gbp-interior-exterior-photos", importance |-> "high"],
     [id |-> "gbp-services", importance |-> "high"],
     [id |-> "gbp-review-flow", importance |-> "high"],
     [id |-> "gbp-holiday-hours", importance |-> "medium"],
     [id |-> "gbp-social-links", importance |-> "medium"],
     [id |-> "gbp-service-area", importance |-> "medium"],
     [id |-> "gbp-team-photo", importance |-> "medium"],
     [id |-> "gbp-questions-answered", importance |-> "medium"],
     [id |-> "gbp-video", importance |-> "low"]
  >>

LOCAL_LANDING_CHECKS ==
  <<
     [id |-> "local-h1-optimised", importance |-> "critical"],
     [id |-> "local-metadata-optimised", importance |-> "critical"],
     [id |-> "local-nap-details", importance |-> "critical"],
     [id |-> "local-business-schema", importance |-> "critical"],
     [id |-> "local-store-image", importance |-> "high"],
     [id |-> "local-gbp-reviews", importance |-> "high"],
     [id |-> "local-google-maps", importance |-> "high"],
     [id |-> "local-ctas", importance |-> "high"],
     [id |-> "local-image-alt-text", importance |-> "medium"],
     [id |-> "local-faqs", importance |-> "medium"],
     [id |-> "local-facilities", importance |-> "medium"],
     [id |-> "local-team-section", importance |-> "medium"]
  >>

INTERNATIONAL_CHECKS ==
  <<
     [id |-> "intl-hreflang-implementation", importance |-> "critical"],
     [id |-> "intl-unique-content", importance |-> "critical"],
     [id |-> "intl-no-geo-redirects", importance |-> "critical"],
     [id |-> "intl-metadata-differentiation", importance |-> "high"],
     [id |-> "intl-hreflang-sitemap", importance |-> "high"],
     [id |-> "intl-subdirectory-structure", importance |-> "high"],
     [id |-> "intl-language-selector", importance |-> "high"],
     [id |-> "intl-crawlability", importance |-> "high"]
  >>

\* the categories of the audit page, with their weights
BASE_CATEGORIES ==
  << [id |-> "authority", weight |-> 20, checks |-> AUTHORITY_CHECKS],
     [id |-> "on-page", weight |-> 15, checks |-> ON_PAGE_CHECKS],
     [id |-> "technical", weight |-> 15, checks |-> TECHNICAL_CHECKS],
     [id |-> "eeat", weight |-> 15, checks |-> EEAT_CHECKS],
     [id |-> "social-search", weight |-> 15, checks |-> SOCIAL_SEARCH_CHECKS],
     [id |-> "ai-search", weight |-> 10, checks |-> AI_SEARCH_CHECKS],
     [id |-> "performance", weight |-> 10, checks |-> PERFORMANCE_CHECKS] >>

ECOMMERCE_CATEGORIES ==
  << [id |-> "ecommerce-collection", weight |-> 10, checks |-> ECOMMERCE_COLLECTION_CHECKS],
     [id |-> "ecommerce-product", weight |-> 10, checks |-> ECOMMERCE_PRODUCT_CHECKS] >>

LOCAL_CATEGORIES ==
  << [id |-> "local-gbp", weight |-> 10, checks |-> LOCAL_GBP_CHECKS],
     [id |-> "local-landing", weight |-> 10, checks |-> LOCAL_LANDING_CHECKS] >>

INTERNATIONAL_CATEGORIES ==
  << [id |-> "international", weight |-> 10, checks |-> INTERNATIONAL_CHECKS] >>

\* brandTypes.includes(t)
Includes(list, t) == \E k \in DOMAIN list : list[k] = t

\* mutant: the categories of a brand type are pushed once for every entry of
\* the list that names it
getCategoriesForBrandTypes_PerEntry(brandTypeList) ==
  LET pushed[n \in 0..Len(brandTypeList)] ==
        IF n = 0 THEN <<>>
        ELSE pushed[n - 1] \o
             (IF brandTypeList[n] = "ecommerce" THEN ECOMMERCE_CATEGORIES
              ELSE IF brandTypeList[n] = "local" THEN LOCAL_CATEGORIES
              ELSE IF brandTypeList[n] = "international" THEN INTERNATIONAL_CATEGORIES
              ELSE <<>>)
  IN  pushed[Len(brandTypeList)] \o BASE_CATEGORIES

\* mutant: the base categories come first
getCategoriesForBrandTypes_BaseFirst(brandTypeList) ==
  BASE_CATEGORIES
  \o (IF Includes(brandTypeList, "ecommerce") THEN ECOMMERCE_CATEGORIES ELSE <<>>)
  \o (IF Includes(brandTypeList, "local") THEN LOCAL_CATEGORIES ELSE <<>>)
  \o (IF Includes(brandTypeList, "international") THEN INTERNATIONAL_CATEGORIES ELSE <<>>)

\* brand-specific categories first, then the base categories
getCategoriesForBrandTypes(brandTypeList) ==
  (IF Includes(brandTypeList, "ecommerce") THEN ECOMMERCE_CATEGORIES ELSE <<>>)
  \o (IF Includes(brandTypeList, "local") THEN LOCAL_CATEGORIES ELSE <<>>)
  \o (IF Includes(brandTypeList, "international") THEN INTERNATIONAL_CATEGORIES ELSE <<>>)
  \o BASE_CATEGORIES

\* type BrandType
BrandType == {"general", "ecommerce", "local", "international"}

\* the Technical category of the registry, with its weight
TechnicalCategory == [id |-> "technical", weight |-> 15, checks |-> TECHNICAL_CHECKS]

\* A small registry for the engine: NumChecks checks, their importance tiers
\* taken in turn from TierCycle; every fourth check, from the first on, goes
\* to category "a" and the others to category "b".
NumChecks == 4

CheckNames == <<"c1", "c2", "c3", "c4", "c5", "c6", "c7", "c8">>

TierCycle == <<"medium", "critical", "high", "low", "critical", "high">>

\* A text is a sequence of pieces: the double quote, the comma and the line
\* break, which the CSV export and its readers tell apart, and runs of other
\* characters.
QUOTE == "\""

COMMA == ","

NEWLINE == "\n"

\* a check of the model registry: descriptions hold commas and quotes, as
\* those of the registry do
ModelCheck(i) ==
  [id |-> CheckNames[i], importance |-> TierCycle[((i - 1) % Len(TierCycle)) + 1],
   name |-> <<"Check ", CheckNames[i]>>,
   description |-> IF i % 2 = 0
                   THEN <<"Verify ", CheckNames[i], COMMA, " then ", QUOTE, "confirm", QUOTE>>
                   ELSE <<"Verify ", CheckNames[i]>>]

InCategoryA(i) == i % 4 = 1

InCategoryB(i) == i % 4 # 1

ModelChecksAt(idx) == [j \in 1..Len(idx) |-> ModelCheck(idx[j])]

ModelChecksA == ModelChecksAt(SelectSeq([i \in 1..NumChecks |-> i], InCategoryA))

ModelChecksB == ModelChecksAt(SelectSeq([i \in 1..NumChecks |-> i], InCategoryB))

\* category weights: the registry uses 10, 15 and 20; 0 and 50 are the edge
\* and the example of the engine's contract
WeightChoices == {<<10, 10>>, <<10, 20>>, <<0, 15>>, <<20, 0>>, <<50, 50>>}

ModelRegistry(w) ==
  << [id |-> "a", name |-> <<"Category A">>, weight |-> w[1], checks |-> ModelChecksA],
     [id |-> "b", name |-> <<"Category B">>, weight |-> w[2], checks |-> ModelChecksB] >>

\* for (const category of categories) for (const check of category.checks):
\* the positions the two loops visit
CheckPositions(categories) ==
  UNION {{<<i, j>> : j \in DOMAIN categories[i].checks} : i \in DOMAIN categories}

\* ids of the checks of a category list
RegistryIds(categories) ==
  UNION {{categories[i].checks[j].id : j \in DOMAIN categories[i].checks} :
           i \in DOMAIN categories}

\* an id that belongs to no check of the model registry (an answer kept from
\* the international brand type)
UnknownIds == {"intl-hreflang-implementation"}

CheckStatus == {"pass", "fail", "null"}

\* ------------------------------------------------------------------------
\* The audit page: state and rendering
\* ------------------------------------------------------------------------
\* const categoryScores = useMemo(...): scores[category.id] for each category
RenderCategoryScores(categories, statuses) ==
  [cid \in {categories[i].id : i \in DOMAIN categories} |->
     LET i == CHOOSE k \in DOMAIN categories :
                /\ categories[k].id = cid
                /\ \A m \in DOMAIN categories : m > k => categories[m].id # cid
     IN  calculateCategoryScore(categories[i].checks, statuses)]

NoScores(categories) == [cid \in {categories[i].id : i \in DOMAIN categories} |-> Null]

\* the page renders: both memoised scores are computed from the registry and
\* the status map
RenderScores ==
  /\ ~rendered
  /\ rendered' = TRUE
  /\ categoryScores' = RenderCategoryScores(CATEGORIES, checkStatuses)
  /\ overallScore' = calculateOverallScore(CATEGORIES, checkStatuses)
  /\ calls' = calls + 1
  /\ UNCHANGED <<CATEGORIES, checkStatuses, scoreArg, brandTypes, rating, currentStep>>
  /\ UNCHANGED <<annotationVars, pdfVars, analyzerVars>>
  /\ UNCHANGED presses

\* mutant: the new object holds the new entry only ({ [checkId]: status }
\* without ...prev)
Put_ForgetsPrev(statuses, id, status) == [k \in {id} |-> status]

\* the status map with one entry set: { ...prev, [checkId]: status }
Put(statuses, id, status) ==
  [k \in DOMAIN statuses \cup {id} |-> IF k = id THEN status ELSE statuses[k]]

\* mutant: the memoised value is never computed again
UseMemo_NeverRecomputed(cached, fresh, depsChanged) == cached

\* useMemo(() => fresh, deps): the cached value unless a dependency changed
UseMemo(cached, fresh, depsChanged) == IF depsChanged THEN fresh ELSE cached

isResultsScreen == currentStep >= Len(CATEGORIES)

\* the status a CheckItem is given: checkStatuses[check.id] || null
StatusProp(id) ==
  IF StatusOf(checkStatuses, id) = "undefined" THEN "null" ELSE StatusOf(checkStatuses, id)

\* setCheckStatuses installs a new object, so both memoised scores are
\* computed again when the page renders
handleCheckStatusChange(checkId, status) ==
  /\ checkStatuses' = Put(checkStatuses, checkId, status)
  /\ categoryScores' = UseMemo(categoryScores,
                               RenderCategoryScores(CATEGORIES, checkStatuses'), TRUE)
  /\ overallScore' = UseMemo(overallScore,
                             calculateOverallScore(CATEGORIES, checkStatuses'), TRUE)
  /\ UNCHANGED <<CATEGORIES, rendered, scoreArg, brandTypes, rating, calls, currentStep>>
  /\ UNCHANGED <<annotationVars, pdfVars, analyzerVars>>

\* mutant: the Pass button never takes an answer back
PassClick_NoToggle(status) == "pass"

\* onStatusChange(id, status === 'pass' ? null : 'pass')
PassClick(status) == IF status = "pass" THEN "null" ELSE "pass"

\* onStatusChange(id, status === 'fail' ? null : 'fail')
FailClick(status) == IF status = "fail" THEN "null" ELSE "fail"

\* presses: the last two presses made in a row on the current screen (which
\* button on which check, and the status and the scores shown before), kept
\* by the specification of the double press only
Pressed(id, button) ==
  LET press == [id |-> id, button |-> button, before |-> StatusProp(id),
                categoryScores |-> categoryScores, overallScore |-> overallScore]
  IN  IF ~presses.kept THEN presses
      ELSE IF presses.last = <<>> THEN [presses EXCEPT !.last = <<press>>]
      ELSE [presses EXCEPT !.last = <<presses.last[Len(presses.last)], press>>]

\* the Pass button of a check of the current category
ClickPass(id) ==
  /\ ~isResultsScreen
  /\ \E j \in DOMAIN CATEGORIES[currentStep + 1].checks :
       CATEGORIES[currentStep + 1].checks[j].id = id
  /\ handleCheckStatusChange(id, PassClick(StatusProp(id)))
  /\ presses' = Pressed(id, "pass")

\* the Fail button of a check of the current category
ClickFail(id) ==
  /\ ~isResultsScreen
  /\ \E j \in DOMAIN CATEGORIES[currentStep + 1].checks :
       CATEGORIES[currentStep + 1].checks[j].id = id
  /\ handleCheckStatusChange(id, FailClick(StatusProp(id)))
  /\ presses' = Pressed(id, "fail")

\* mutant: the Next button is enabled by the first answer
allChecksCompleted_AnyAnswered ==
  \E j \in DOMAIN CATEGORIES[currentStep + 1].checks :
    ~NotAnswered(StatusOf(checkStatuses, CATEGORIES[currentStep + 1].checks[j].id))

allChecksCompleted ==
  \A j \in DOMAIN CATEGORIES[currentStep + 1].checks :
    ~NotAnswered(StatusOf(checkStatuses, CATEGORIES[currentStep + 1].checks[j].id))

\* the Next button is enabled once every check of the category is answered;
\* the dependencies of the memoised scores are untouched
handleNext ==
  /\ ~isResultsScreen
  /\ allChecksCompleted
  /\ currentStep' = currentStep + 1
  /\ categoryScores' = UseMemo(categoryScores,
                               RenderCategoryScores(CATEGORIES, checkStatuses), FALSE)
  /\ overallScore' = UseMemo(overallScore,
                             calculateOverallScore(CATEGORIES, checkStatuses), FALSE)
  /\ UNCHANGED <<CATEGORIES, checkStatuses, rendered, scoreArg, brandTypes, rating, calls>>
  /\ UNCHANGED <<annotationVars, pdfVars, analyzerVars>>
  /\ presses' = [presses EXCEPT !.last = <<>>]

\* mutant: the Back button is offered on the first category too
handleBack_AlwaysOffered ==
  /\ currentStep' = currentStep - 1
  /\ UNCHANGED <<CATEGORIES, checkStatuses, rendered, categoryScores, overallScore,
                 scoreArg, brandTypes, rating, calls, presses>>
  /\ UNCHANGED <<annotationVars, pdfVars, analyzerVars>>

\* the Back button: from the second category on, and on the results screen
handleBack ==
  /\ currentStep > 0
  /\ currentStep' = currentStep - 1
  /\ categoryScores' = UseMemo(categoryScores,
                               RenderCategoryScores(CATEGORIES, checkStatuses), FALSE)
  /\ overallScore' = UseMemo(overallScore,
                             calculateOverallScore(CATEGORIES, checkStatuses), FALSE)
  /\ UNCHANGED <<CATEGORIES, checkStatuses, rendered, scoreArg, brandTypes, rating, calls>>
  /\ UNCHANGED <<annotationVars, pdfVars, analyzerVars>>
  /\ presses' = [presses EXCEPT !.last = <<>>]

\* const CATEGORIES = useMemo(() => getCategoriesForBrandTypes(brandTypes)):
\* the page builds its registry and renders the scores of the status map
BuildCategories ==
  /\ CATEGORIES = <<>>
  /\ CATEGORIES' = getCategoriesForBrandTypes(brandTypes)
  /\ rendered' = TRUE
  /\ categoryScores' = RenderCategoryScores(CATEGORIES', checkStatuses)
  /\ overallScore' = calculateOverallScore(CATEGORIES', checkStatuses)
  /\ UNCHANGED <<checkStatuses, scoreArg, brandTypes, rating, calls, currentStep>>
  /\ UNCHANGED <<annotationVars, pdfVars, analyzerVars>>
  /\ UNCHANGED presses

\* the engine is called once more on the same registry and status map
MaxCalls == 3

CallAgain ==
  /\ rendered
  /\ calls < MaxCalls
  /\ categoryScores' = RenderCategoryScores(CATEGORIES, checkStatuses)
  /\ overallScore' = calculateOverallScore(CATEGORIES, checkStatuses)
  /\ calls' = calls + 1
  /\ UNCHANGED <<CATEGORIES, checkStatuses, rendered, scoreArg, brandTypes, rating, currentStep>>
  /\ UNCHANGED <<annotationVars, pdfVars, analyzerVars>>
  /\ UNCHANGED presses

\* the results screen rates the overall score, if there is one
RateOverallScore ==
  /\ rendered
  /\ overallScore # Null
  /\ rating = Null
  /\ rating' = <<getScoreRating(overallScore[1])>>
  /\ UNCHANGED <<CATEGORIES, checkStatuses, rendered, categoryScores,
                 overallScore, scoreArg, brandTypes, calls, currentStep>>
  /\ UNCHANGED <<annotationVars, pdfVars, analyzerVars>>
  /\ UNCHANGED presses

\* getScoreRating applied to a score
CallGetScoreRating ==
  /\ rating = Null
  /\ rating' = <<getScoreRating(scoreArg)>>
  /\ UNCHANGED <<CATEGORIES, checkStatuses, rendered, categoryScores,
                 overallScore, scoreArg, brandTypes, calls, currentStep>>
  /\ UNCHANGED <<annotationVars, pdfVars, analyzerVars>>
  /\ UNCHANGED presses

\* ------------------------------------------------------------------------
\* The summary of the results screen
\* ------------------------------------------------------------------------
\* Object.values(checkStatuses).filter((s) => s === 'pass').length
passedChecks == Cardinality({id \in DOMAIN checkStatuses : checkStatuses[id] = "pass"})

\* Object.values(checkStatuses).filter((s) => s === 'fail').length
failedChecks == Cardinality({id \in DOMAIN checkStatuses : checkStatuses[id] = "fail"})

totalAnswered == passedChecks + failedChecks

\* mutant: only the checks of the first category are counted
failedByPriority_FirstCategory(importance) ==
  Cardinality({pos \in CheckPositions(CATEGORIES) :
     /\ pos[1] = 1
     /\ CATEGORIES[pos[1]].checks[pos[2]].importance = importance
     /\ StatusOf(checkStatuses, CATEGORIES[pos[1]].checks[pos[2]].id) = "fail"})

\* failedByPriority[check.importance]++ for every failed check of CATEGORIES
failedByPriority(importance) ==
  Cardinality({pos \in CheckPositions(CATEGORIES) :
     /\ CATEGORIES[pos[1]].checks[pos[2]].importance = importance
     /\ StatusOf(checkStatuses, CATEGORIES[pos[1]].checks[pos[2]].id) = "fail"})

totalFailed ==
  failedByPriority("critical") + failedByPriority("high")
    + failedByPriority("medium") + failedByPriority("low")

\* const rating = overallScore !== null ? getScoreRating(overallScore) : null
\* (a score that is no number compares false with every threshold, an
\* infinite one true)
resultsRating ==
  IF overallScore = Null THEN Null
  ELSE IF Len(overallScore) = 1 THEN <<getScoreRating(overallScore[1])>>
  ELSE IF overallScore[1] = "Infinity" THEN <<getScoreRating(100)>>
  ELSE <<getScoreRating(0)>>

\* ------------------------------------------------------------------------
\* Notes, links and the CSV export
\* ------------------------------------------------------------------------
handleNoteChange(checkId, note) ==
  /\ checkNotes' = Put(checkNotes, checkId, note)
  /\ categoryScores' = UseMemo(categoryScores,
                               RenderCategoryScores(CATEGORIES, checkStatuses), FALSE)
  /\ overallScore' = UseMemo(overallScore,
                             calculateOverallScore(CATEGORIES, checkStatuses), FALSE)
  /\ UNCHANGED <<CATEGORIES, checkStatuses, rendered, scoreArg, brandTypes, rating,
                 calls, currentStep, checkLinks, csv>>
  /\ UNCHANGED <<pdfVars, analyzerVars>>
  /\ UNCHANGED presses

handleLinkChange(checkId, link) ==
  /\ checkLinks' = Put(checkLinks, checkId, link)
  /\ categoryScores' = UseMemo(categoryScores,
                               RenderCategoryScores(CATEGORIES, checkStatuses), FALSE)
  /\ overallScore' = UseMemo(overallScore,
                             calculateOverallScore(CATEGORIES, checkStatuses), FALSE)
  /\ UNCHANGED <<CATEGORIES, checkStatuses, rendered, scoreArg, brandTypes, rating,
                 calls, currentStep, checkNotes, csv>>
  /\ UNCHANGED <<pdfVars, analyzerVars>>
  /\ UNCHANGED presses

\* check.importance.charAt(0).toUpperCase() + check.importance.slice(1)
Capitalize(importance) ==
  CASE importance = "critical" -> <<"Critical">>
    [] importance = "high"     -> <<"High">>
    [] importance = "medium"   -> <<"Medium">>
    [] importance = "low"      -> <<"Low">>

\* status === 'pass' ? 'Pass' : status === 'fail' ? 'Fail' : 'Not Answered'
statusText(status) ==
  IF status = "pass" THEN <<"Pass">>
  ELSE IF status = "fail" THEN <<"Fail">>
  ELSE <<"Not Answered">>

\* texts[id] || ''
TextOrEmpty(texts, id) == IF id \in DOMAIN texts THEN texts[id] ELSE <<>>

CsvHeader ==
  <<<<"Category">>, <<"Priority">>, <<"Check Name">>, <<"Description">>,
    <<"Status">>, <<"Notes">>, <<"Links/Docs">>>>

\* mutant: the status column tells only passed from the rest
CsvRow_PassOnly(category, check, statuses, notes, links) ==
  <<category.name, Capitalize(check.importance), check.name, check.description,
    IF StatusOf(statuses, check.id) = "pass" THEN <<"Pass">> ELSE <<"Fail">>,
    TextOrEmpty(notes, check.id), TextOrEmpty(links, check.id)>>

\* rows.push([...]) for one check
CsvRow(category, check, statuses, notes, links) ==
  <<category.name, Capitalize(check.importance), check.name, check.description,
    statusText(StatusOf(statuses, check.id)),
    TextOrEmpty(notes, check.id), TextOrEmpty(links, check.id)>>

\* the two loops over CATEGORIES and category.checks, from category i on
RECURSIVE CsvRowsFrom(_, _, _, _, _)
CsvRowsFrom(categories, i, statuses, notes, links) ==
  IF i > Len(categories) THEN <<>>
  ELSE [j \in DOMAIN categories[i].checks |->
          CsvRow(categories[i], categories[i].checks[j], statuses, notes, links)]
       \o CsvRowsFrom(categories, i + 1, statuses, notes, links)

\* cell.replace(/"/g, '""')
RECURSIVE DoubleQuotes(_)
DoubleQuotes(cell) ==
  IF cell = <<>> THEN <<>>
  ELSE (IF Head(cell) = QUOTE THEN <<QUOTE, QUOTE>> ELSE <<Head(cell)>>)
       \o DoubleQuotes(Tail(cell))

\* mutant: the cell is wrapped in quotes as it is
QuoteCell_NoDoubling(cell) == <<QUOTE>> \o cell \o <<QUOTE>>

\* `"${cell.replace(/"/g, '""')}"`
QuoteCell(cell) == <<QUOTE>> \o DoubleQuotes(cell) \o <<QUOTE>>

\* texts.join(separator)
RECURSIVE Join(_, _)
Join(texts, separator) ==
  IF texts = <<>> THEN <<>>
  ELSE IF Len(texts) = 1 THEN texts[1]
  ELSE texts[1] \o <<separator>> \o Join(Tail(texts), separator)

\* rows.map(row => row.map(quote).join(',')).join('\n')
CsvContent(rows) ==
  Join([r \in DOMAIN rows |->
          Join([c \in DOMAIN rows[r] |-> QuoteCell(rows[r][c])], COMMA)], NEWLINE)

\* the content of the file that exportToCSV hands to the browser
exportToCSV ==
  /\ csv' = CsvContent(<<CsvHeader>>
                       \o CsvRowsFrom(CATEGORIES, 1, checkStatuses, checkNotes, checkLinks))
  /\ categoryScores' = UseMemo(categoryScores,
                               RenderCategoryScores(CATEGORIES, checkStatuses), FALSE)
  /\ overallScore' = UseMemo(overallScore,
                             calculateOverallScore(CATEGORIES, checkStatuses), FALSE)
  /\ UNCHANGED <<CATEGORIES, checkStatuses, rendered, scoreArg, brandTypes, rating,
                 calls, currentStep, checkNotes, checkLinks>>
  /\ UNCHANGED <<pdfVars, analyzerVars>>
  /\ UNCHANGED presses

\* ------------------------------------------------------------------------
\* The PDF download of the results screen
\* ------------------------------------------------------------------------
\* pdfPc: the calls of downloadReport that wait for a block to be drawn, each
\* with the blocks of the summary and of the detailed section still to draw

\* the Download Report button, disabled while isGeneratingPdf: the call runs
\* to its first await; with no block to draw it runs to its end, and the flag
\* set and reset in the same event is false when the page renders
downloadReport(summaryChildren, detailedChildren) ==
  /\ isResultsScreen
  /\ ~isGeneratingPdf
  /\ IF summaryChildren + detailedChildren = 0
     THEN /\ isGeneratingPdf' = FALSE
          /\ pdfPc' = pdfPc
     ELSE /\ isGeneratingPdf' = TRUE
          /\ pdfPc' = Append(pdfPc, [summary |-> summaryChildren,
                                     detailed |-> detailedChildren])
  /\ UNCHANGED <<CATEGORIES, checkStatuses, rendered, categoryScores, overallScore,
                 scoreArg, rating, calls, currentStep, brandTypes,
                 annotationVars, analyzerVars, presses>>

\* the calls in flight without call i
WithoutCall(i) == [k \in 1..(Len(pdfPc) - 1) |-> IF k < i THEN pdfPc[k] ELSE pdfPc[k + 1]]

\* await addBlockToPdf(child) of call i is done: the next block is awaited,
\* or after the last one the file is saved and finally resets the flag
BlockAdded(i) ==
  /\ i \in DOMAIN pdfPc
  /\ LET left == IF pdfPc[i].summary > 0
                 THEN [pdfPc[i] EXCEPT !.summary = @ - 1]
                 ELSE [pdfPc[i] EXCEPT !.detailed = @ - 1]
     IN  IF left.summary + left.detailed = 0
         THEN /\ pdfPc' = WithoutCall(i)
              /\ isGeneratingPdf' = FALSE
         ELSE /\ pdfPc' = [pdfPc EXCEPT ![i] = left]
              /\ isGeneratingPdf' = isGeneratingPdf
  /\ UNCHANGED <<CATEGORIES, checkStatuses, rendered, categoryScores, overallScore,
                 scoreArg, rating, calls, currentStep, brandTypes,
                 annotationVars, analyzerVars, presses>>

\* mutant: the flag is reset after the try block, not in finally
BlockThrows_NoFinally(i) ==
  /\ i \in DOMAIN pdfPc
  /\ pdfPc' = WithoutCall(i)
  /\ isGeneratingPdf' = isGeneratingPdf
  /\ UNCHANGED <<CATEGORIES, checkStatuses, rendered, categoryScores, overallScore,
                 scoreArg, rating, calls, currentStep, brandTypes,
                 annotationVars, analyzerVars, presses>>

\* await addBlockToPdf(child) of call i throws (html2canvas rejects, the image
\* cannot be added): catch logs the error and finally resets the flag
BlockThrows(i) ==
  /\ i \in DOMAIN pdfPc
  /\ pdfPc' = WithoutCall(i)
  /\ isGeneratingPdf' = FALSE
  /\ UNCHANGED <<CATEGORIES, checkStatuses, rendered, categoryScores, overallScore,
                 scoreArg, rating, calls, currentStep, brandTypes,
                 annotationVars, analyzerVars, presses>>

\* ------------------------------------------------------------------------
\* The analyzer endpoint (POST /api/analyze)
\* ------------------------------------------------------------------------
\* The url of a request body.  A string is held as what the handler looks at:
\* whether it has surrounding white space, its scheme prefix and the rest.
\* The rest "example.com" parses as a URL; an empty rest and a rest with a
\* blank in the host make new URL() throw.
UrlStrings ==
  [kind : {"string"}, padded : BOOLEAN, scheme : {"", "http://", "https://"},
   rest : {"", "example.com", "exa mple.com"}]

\* url absent from the body, null, or not a string at all
UrlNonStrings ==
  [kind : {"undefined", "null", "number"}, padded : {FALSE}, scheme : {""}, rest : {""}]

Requests ==
  {[json |-> "malformed", url |-> u] : u \in {x \in UrlNonStrings : x.kind = "undefined"}}
  \cup {[json |-> "ok", url |-> u] : u \in UrlStrings \cup UrlNonStrings}

\* !url
IsFalsy(url) ==
  \/ url.kind \in {"undefined", "null"}
  \/ url.kind = "string" /\ ~url.padded /\ url.scheme = "" /\ url.rest = ""

\* url.trim(), then the https:// prefix unless a scheme is there
NormalizeUrl(url) ==
  LET trimmed == [url EXCEPT !.padded = FALSE]
  IN  IF trimmed.scheme = "" THEN [trimmed EXCEPT !.scheme = "https://"] ELSE trimmed

\* new URL(normalizedUrl) does not throw
UrlParses(url) == url.rest = "example.com"

\* the pages a fetch can deliver, held as what the patterns of the handler
\* find in them: the empty body, a page where nothing matches, a page where
\* everything matches
HtmlBodies == {"", "bare page", "rich page"}

\* what a failing fetch throws: an Error (network failure, abort on timeout)
\* or a value that is no Error
FetchFailures ==
  {[isError |-> TRUE, message |-> "fetch failed"],
   [isError |-> TRUE, message |-> "This operation was aborted"],
   [isError |-> FALSE, message |-> ""]}

\* const result: AnalysisResult = { url, ... }: the url as it was sent
InitialResult(url) ==
  [url       |-> (IF url.padded THEN " " ELSE "") \o url.scheme \o url.rest,
   fetchedAt |-> "now",
   robotsTxt |-> [exists |-> FALSE],
   sitemap   |-> [exists |-> FALSE],
   meta      |-> [x \in {} |-> ""],
   headings  |-> [h1Count |-> 0, h1Tags |-> <<>>],
   schema    |-> [hasOrganization |-> FALSE, hasPerson |-> FALSE, hasFAQ |-> FALSE,
                  hasArticle |-> FALSE, hasBreadcrumb |-> FALSE, types |-> <<>>],
   pages     |-> [hasAbout |-> FALSE, hasPrivacy |-> FALSE, hasTerms |-> FALSE,
                  hasContact |-> FALSE],
   social    |-> [links |-> <<>>, hasTwitter |-> FALSE, hasFacebook |-> FALSE,
                  hasLinkedIn |-> FALSE, hasInstagram |-> FALSE, hasYouTube |-> FALSE,
                  hasTikTok |-> FALSE, hasPinterest |-> FALSE],
   technical |-> [hasCanonical |-> FALSE, hasNoindex |-> FALSE, loadTimeMs |-> "elapsed"]]

\* NextResponse.json(body, { status })
JsonResponse(body, status) == [status |-> status, body |-> body]

\* catch (error): { error: error.message } with status 500
CaughtResponse(message) == JsonResponse([error |-> message], 500)

\* the handler up to the fetch of the page: the body is read, the url is
\* tested, normalised and parsed
ReadBody ==
  /\ postPc = "start"
  /\ IF request.json = "malformed"
     THEN /\ response' = CaughtResponse("Unexpected end of JSON input")
          /\ postPc' = "done"
     ELSE IF IsFalsy(request.url)
     THEN /\ response' = JsonResponse([error |-> "URL is required"], 400)
          /\ postPc' = "done"
     ELSE IF request.url.kind # "string"
     THEN /\ response' = CaughtResponse("url.trim is not a function")
          /\ postPc' = "done"
     ELSE IF ~UrlParses(NormalizeUrl(request.url))
     THEN /\ response' = CaughtResponse("Invalid URL")
          /\ postPc' = "done"
     ELSE /\ response' = response
          /\ postPc' = "fetch"
  /\ UNCHANGED <<request, html, fetchError, result>>
  /\ UNCHANGED <<CATEGORIES, checkStatuses, rendered, categoryScores, overallScore,
                 scoreArg, rating, calls, currentStep, brandTypes,
                 annotationVars, pdfVars>>
  /\ UNCHANGED presses

\* the fetch of the page delivers a body
FetchPageOk(body) ==
  /\ postPc = "fetch"
  /\ html' = body
  /\ fetchError' = ""
  /\ result' = InitialResult(request.url)
  /\ postPc' = "robots"
  /\ UNCHANGED <<request, response>>
  /\ UNCHANGED <<CATEGORIES, checkStatuses, rendered, categoryScores, overallScore,
                 scoreArg, rating, calls, currentStep, brandTypes,
                 annotationVars, pdfVars>>
  /\ UNCHANGED presses

\* the fetch of the page throws: the result is returned with the error
FetchPageFails(thrown) ==
  /\ postPc = "fetch"
  /\ html' = ""
  /\ fetchError' = (IF thrown.isError THEN thrown.message ELSE "Failed to fetch URL")
  /\ result' = ("error" :> fetchError') @@ InitialResult(request.url)
  /\ response' = JsonResponse(result', 200)
  /\ postPc' = "done"
  /\ UNCHANGED request
  /\ UNCHANGED <<CATEGORIES, checkStatuses, rendered, categoryScores, overallScore,
                 scoreArg, rating, calls, currentStep, brandTypes,
                 annotationVars, pdfVars>>
  /\ UNCHANGED presses

\* robots.txt: fetched with content (naming AI crawlers under a disallow, or
\* not), answered without success, or not fetched at all
RobotsOutcomes == {"blocks AI crawlers", "allows", "not ok", "throws"}

FetchRobots(outcome) ==
  /\ postPc = "robots"
  /\ result' = IF outcome \in {"blocks AI crawlers", "allows"}
               THEN [result EXCEPT !.robotsTxt =
                       [exists |-> TRUE, content |-> outcome,
                        blocksAICrawlers |-> (outcome = "blocks AI crawlers")]]
               ELSE result
  /\ postPc' = "sitemap"
  /\ UNCHANGED <<request, html, fetchError, response>>
  /\ UNCHANGED <<CATEGORIES, checkStatuses, rendered, categoryScores, overallScore,
                 scoreArg, rating, calls, currentStep, brandTypes,
                 annotationVars, pdfVars>>
  /\ UNCHANGED presses

sitemapUrls == <<"/sitemap.xml", "/sitemap_index.xml", "/sitemap/sitemap.xml">>

\* what the patterns of the handler find in a page that is not empty
ParseHtml(res, body) ==
  IF body = ""
  THEN res
  ELSE LET rich == body = "rich page"
       IN  [res EXCEPT
              !.meta      = IF rich
                            THEN [title |-> "Example", titleLength |-> Len("Example")]
                            ELSE res.meta,
              !.headings  = IF rich THEN [h1Count |-> 1, h1Tags |-> <<"Example">>]
                            ELSE [h1Count |-> 0, h1Tags |-> <<>>],
              !.technical = IF rich
                            THEN ("canonicalUrl" :> res.url)
                                 @@ [res.technical EXCEPT !.hasCanonical = TRUE]
                            ELSE res.technical,
              !.schema    = [res.schema EXCEPT
                               !.hasOrganization = rich,
                               !.types = IF rich THEN <<"Organization">> ELSE <<>>],
              !.pages     = [res.pages EXCEPT !.hasAbout = rich],
              !.social    = IF rich
                            THEN [res.social EXCEPT
                                    !.links = <<[platform |-> "YouTube",
                                                 url |-> "https://youtube.com/example"]>>,
                                    !.hasYouTube = TRUE]
                            ELSE res.social]

\* the sitemap addresses are tried in turn (found: the first that exists, 0
\* for none), the page is parsed and the result is returned
CheckSitemaps(found) ==
  /\ postPc = "sitemap"
  /\ result' = ParseHtml(IF found = 0
                         THEN result
                         ELSE [result EXCEPT !.sitemap =
                                 [exists |-> TRUE, url |-> sitemapUrls[found]]],
                         html)
  /\ response' = JsonResponse(result', 200)
  /\ postPc' = "done"
  /\ UNCHANGED <<request, html, fetchError>>
  /\ UNCHANGED <<CATEGORIES, checkStatuses, rendered, categoryScores, overallScore,
                 scoreArg, rating, calls, currentStep, brandTypes,
                 annotationVars, pdfVars>>
  /\ UNCHANGED presses

\* nothing annotated, nothing exported, no download and no request under way
InitIdle ==
  /\ checkNotes = [id \in {} |-> ""]
  /\ checkLinks = [id \in {} |-> ""]
  /\ csv = Null
  /\ isGeneratingPdf = FALSE
  /\ pdfPc = <<>>
  /\ request = Null
  /\ postPc = "idle"
  /\ html = ""
  /\ fetchError = ""
  /\ result = Null
  /\ response = Null
  /\ presses = NoPresses

\* Spec: the engine on the model registry.  The inputs are drawn at the start:
\* a weight pair and a status map in which every check is absent, null, pass
\* or fail and a foreign id is absent, pass or fail.
Init ==
  /\ \E w \in WeightChoices : CATEGORIES = ModelRegistry(w)
  /\ \E S \in SUBSET (RegistryIds(ModelRegistry(<<0, 0>>)) \cup UnknownIds) :
       /\ checkStatuses \in [S -> CheckStatus]
       /\ \A id \in S \cap UnknownIds : checkStatuses[id] # "null"
  /\ rendered = FALSE
  /\ categoryScores = NoScores(CATEGORIES)
  /\ overallScore = Null
  /\ scoreArg = 0
  /\ rating = Null
  /\ calls = 0
  /\ currentStep = 0
  /\ InitIdle
  /\ brandTypes = <<"general">>

Next == RenderScores

Spec == Init /\ [][Next]_vars

\* SpecCalls: the engine called up to MaxCalls times on the same inputs
NextCalls == RenderScores \/ CallAgain

SpecCalls == Init /\ [][NextCalls]_vars

\* SpecReport: the engine, followed by the rating of the overall score
NextReport == RenderScores \/ RateOverallScore

SpecReport == Init /\ [][NextReport]_vars

\* SpecOrder: the engine on the On-Page, EEAT and AI Search categories of the
\* registry (weights 15, 15 and 10); the first critical and the first high
\* check of each may be answered.
OrderCategories == <<BASE_CATEGORIES[2], BASE_CATEGORIES[4], BASE_CATEGORIES[6]>>

FirstWith(checks, importance) ==
  checks[CHOOSE j \in DOMAIN checks :
           /\ checks[j].importance = importance
           /\ \A k \in 1..(j - 1) : checks[k].importance # importance]

OrderAnswerable ==
  UNION {{FirstWith(OrderCategories[i].checks, "critical").id,
          FirstWith(OrderCategories[i].checks, "high").id} :
           i \in DOMAIN OrderCategories}

InitOrder ==
  /\ CATEGORIES = OrderCategories
  /\ \E S \in SUBSET OrderAnswerable : checkStatuses \in [S -> {"pass", "fail"}]
  /\ rendered = FALSE
  /\ categoryScores = NoScores(CATEGORIES)
  /\ overallScore = Null
  /\ scoreArg = 0
  /\ rating = Null
  /\ calls = 0
  /\ currentStep = 0
  /\ InitIdle
  /\ brandTypes = <<"general">>

SpecOrder == InitOrder /\ [][RenderScores]_vars

\* SpecWizard: the audit page on the model registry.  The page starts on the
\* first category with an empty status map, already rendered.
InitWizard ==
  /\ CATEGORIES = ModelRegistry(<<10, 20>>)
  /\ checkStatuses = [id \in {} |-> "null"]
  /\ rendered = TRUE
  /\ categoryScores = RenderCategoryScores(CATEGORIES, checkStatuses)
  /\ overallScore = calculateOverallScore(CATEGORIES, checkStatuses)
  /\ scoreArg = 0
  /\ rating = Null
  /\ calls = 0
  /\ currentStep = 0
  /\ InitIdle
  /\ brandTypes = <<"general">>

NextWizard ==
  \/ \E id \in RegistryIds(CATEGORIES) : ClickPass(id)
  \/ \E id \in RegistryIds(CATEGORIES) : ClickFail(id)
  \/ handleNext
  \/ handleBack

SpecWizard == InitWizard /\ [][NextWizard]_vars

\* SpecToggle: the wizard with the last two presses kept
InitToggle ==
  /\ CATEGORIES = ModelRegistry(<<10, 20>>)
  /\ checkStatuses = [id \in {} |-> "null"]
  /\ rendered = TRUE
  /\ categoryScores = RenderCategoryScores(CATEGORIES, checkStatuses)
  /\ overallScore = calculateOverallScore(CATEGORIES, checkStatuses)
  /\ scoreArg = 0
  /\ rating = Null
  /\ calls = 0
  /\ currentStep = 0
  /\ brandTypes = <<"general">>
  /\ checkNotes = [id \in {} |-> <<>>]
  /\ checkLinks = [id \in {} |-> <<>>]
  /\ csv = Null
  /\ isGeneratingPdf = FALSE
  /\ pdfPc = <<>>
  /\ request = Null
  /\ postPc = "idle"
  /\ html = ""
  /\ fetchError = ""
  /\ result = Null
  /\ response = Null
  /\ presses = [kept |-> TRUE, last |-> <<>>]

SpecToggle == InitToggle /\ [][NextWizard]_vars

\* SpecAnnotate: the wizard with notes and links on two of the checks
AnnotatedIds == {"c1", "c2"}

\* the note field of a check of the current category
EditNote(id, note) ==
  /\ ~isResultsScreen
  /\ \E j \in DOMAIN CATEGORIES[currentStep + 1].checks :
       CATEGORIES[currentStep + 1].checks[j].id = id
  /\ handleNoteChange(id, note)

\* the link field of a check of the current category
EditLink(id, link) ==
  /\ ~isResultsScreen
  /\ \E j \in DOMAIN CATEGORIES[currentStep + 1].checks :
       CATEGORIES[currentStep + 1].checks[j].id = id
  /\ handleLinkChange(id, link)

NextAnnotate ==
  \/ NextWizard
  \/ \E id \in AnnotatedIds : EditNote(id, <<"see report">>)
  \/ \E id \in AnnotatedIds : EditLink(id, <<"https://example.com/doc">>)

SpecAnnotate == InitWizard /\ [][NextAnnotate]_vars

\* SpecRegistry: the registry of the page for the brand types of the address,
\* (searchParams.get('type') || 'general').split(','): a list of one to
\* MaxBrandTypes brand types, in any order and with repetitions.
MaxBrandTypes == 3

\* the entries the type parameter of the address can hold: the brand types
\* and a word that is none
TypeParams == BrandType \cup {"blog"}

InitRegistry ==
  /\ \E n \in 1..MaxBrandTypes : brandTypes \in [1..n -> TypeParams]
  /\ CATEGORIES = <<>>
  /\ checkStatuses = [id \in {} |-> "null"]
  /\ rendered = FALSE
  /\ categoryScores = NoScores(CATEGORIES)
  /\ overallScore = Null
  /\ scoreArg = 0
  /\ rating = Null
  /\ calls = 0
  /\ currentStep = 0
  /\ InitIdle

SpecRegistry == InitRegistry /\ [][BuildCategories]_vars

\* SpecExport: the CSV export on a status map with one annotated check
NoteTexts ==
  {<<>>, <<"see report">>, <<"title", COMMA, " meta">>,
   <<"says ", QUOTE, "ok", QUOTE>>, <<"line 1", NEWLINE, "line 2">>}

LinkTexts == {<<>>, <<"https://example.com/doc">>}

InitExport ==
  /\ CATEGORIES = ModelRegistry(<<10, 20>>)
  /\ \E S \in SUBSET RegistryIds(CATEGORIES) : checkStatuses \in [S -> CheckStatus]
  /\ \E S \in {T \in SUBSET RegistryIds(CATEGORIES) : Cardinality(T) <= 1} :
       /\ checkNotes \in [S -> NoteTexts]
       /\ checkLinks \in [S -> LinkTexts]
  /\ csv = Null
  /\ rendered = FALSE
  /\ categoryScores = NoScores(CATEGORIES)
  /\ overallScore = Null
  /\ scoreArg = 0
  /\ rating = Null
  /\ calls = 0
  /\ currentStep = 0
  /\ brandTypes = <<"general">>
  /\ isGeneratingPdf = FALSE
  /\ pdfPc = <<>>
  /\ request = Null
  /\ postPc = "idle"
  /\ html = ""
  /\ fetchError = ""
  /\ result = Null
  /\ response = Null
  /\ presses = NoPresses

SpecExport == InitExport /\ [][exportToCSV]_vars

\* SpecPdf: the results screen of a finished audit with its download button;
\* a block that is awaited is drawn or fails in the end
MaxBlocks == 2

InitPdf ==
  /\ CATEGORIES = ModelRegistry(<<10, 20>>)
  /\ checkStatuses \in [RegistryIds(CATEGORIES) -> {"pass", "fail"}]
  /\ rendered = TRUE
  /\ categoryScores = RenderCategoryScores(CATEGORIES, checkStatuses)
  /\ overallScore = calculateOverallScore(CATEGORIES, checkStatuses)
  /\ scoreArg = 0
  /\ rating = Null
  /\ calls = 0
  /\ currentStep = Len(CATEGORIES)
  /\ InitIdle
  /\ brandTypes = <<"general">>

NextPdf ==
  \/ \E summaryChildren \in 0..MaxBlocks, detailedChildren \in 0..MaxBlocks :
       downloadReport(summaryChildren, detailedChildren)
  \/ \E i \in DOMAIN pdfPc : BlockAdded(i)
  \/ \E i \in DOMAIN pdfPc : BlockThrows(i)

BlockSettles == \E i \in DOMAIN pdfPc : BlockAdded(i) \/ BlockThrows(i)

SpecPdf == InitPdf /\ [][NextPdf]_vars /\ WF_vars(BlockSettles)

\* SpecAnalyze: one request to the analyzer endpoint
InitAnalyze ==
  /\ request \in Requests
  /\ postPc = "start"
  /\ html = ""
  /\ fetchError = ""
  /\ result = Null
  /\ response = Null
  /\ presses = NoPresses
  /\ CATEGORIES = <<>>
  /\ checkStatuses = [id \in {} |-> "null"]
  /\ rendered = FALSE
  /\ categoryScores = NoScores(CATEGORIES)
  /\ overallScore = Null
  /\ scoreArg = 0
  /\ rating = Null
  /\ calls = 0
  /\ currentStep = 0
  /\ brandTypes = <<"general">>
  /\ checkNotes = [id \in {} |-> ""]
  /\ checkLinks = [id \in {} |-> ""]
  /\ csv = Null
  /\ isGeneratingPdf = FALSE
  /\ pdfPc = <<>>

NextAnalyze ==
  \/ ReadBody
  \/ \E body \in HtmlBodies : FetchPageOk(body)
  \/ \E thrown \in FetchFailures : FetchPageFails(thrown)
  \/ \E outcome \in RobotsOutcomes : FetchRobots(outcome)
  \/ \E found \in 0..Len(sitemapUrls) : CheckSitemaps(found)

SpecAnalyze == InitAnalyze /\ [][NextAnalyze]_vars

\* SpecTechnical: the engine on the Technical category of the registry, the
\* checks answered from the top of the list down, at most MaxAnswered of them.
MaxAnswered == 11

InitTechnical ==
  /\ CATEGORIES = <<TechnicalCategory>>
  /\ \E k \in 0..MaxAnswered :
       checkStatuses \in [{TECHNICAL_CHECKS[j].id : j \in 1..k} -> {"pass", "fail"}]
  /\ rendered = FALSE
  /\ categoryScores = NoScores(CATEGORIES)
  /\ overallScore = Null
  /\ scoreArg = 0
  /\ rating = Null
  /\ calls = 0
  /\ currentStep = 0
  /\ InitIdle
  /\ brandTypes = <<"general">>

SpecTechnical == InitTechnical /\ [][RenderScores]_vars

\* SpecRating: getScoreRating on every integer score
InitRating ==
  /\ CATEGORIES = <<>>
  /\ checkStatuses = [id \in {} |-> "null"]
  /\ rendered = FALSE
  /\ categoryScores = NoScores(CATEGORIES)
  /\ overallScore = Null
  /\ scoreArg \in 0..100
  /\ rating = Null
  /\ calls = 0
  /\ currentStep = 0
  /\ InitIdle
  /\ brandTypes = <<"general">>

SpecRating == InitRating /\ [][CallGetScoreRating]_vars

\* ------------------------------------------------------------------------
\* Vocabulary of the claims (stated from the specification, not the code)
\* ------------------------------------------------------------------------
\* the multiplier the specification gives each importance tier
TierWeight(importance) ==
  IF importance = "critical" THEN 4
  ELSE IF importance = "high" THEN 3
  ELSE IF importance = "medium" THEN 2
  ELSE 1

IsAnswered(statuses, id) == id \in DOMAIN statuses /\ statuses[id] \in {"pass", "fail"}

AnyAnswered(checks, statuses) ==
  \E j \in DOMAIN checks : IsAnswered(statuses, checks[j].id)

\* sum of the tier weights of the checks 1..n of a list whose status is in kept
RECURSIVE SumTierWeights(_, _, _, _)
SumTierWeights(checks, statuses, kept, n) ==
  IF n = 0 THEN 0
  ELSE SumTierWeights(checks, statuses, kept, n - 1)
       + (IF checks[n].id \in DOMAIN statuses /\ statuses[checks[n].id] \in kept
          THEN TierWeight(checks[n].importance) ELSE 0)

AnsweredWeight(checks, statuses) ==
  SumTierWeights(checks, statuses, {"pass", "fail"}, Len(checks))

PassedWeight(checks, statuses) ==
  SumTierWeights(checks, statuses, {"pass"}, Len(checks))

\* num / den rounded to the nearest integer, a tie going away from zero
RoundHalfUp(num, den) == (2 * num + den) \div (2 * den)

\* the status map without its null entries
DropNulls(statuses) ==
  [k \in {d \in DOMAIN statuses : statuses[d] # "null"} |-> statuses[k]]

\* the status map cut down to the given ids
Restrict(statuses, ids) == [k \in DOMAIN statuses \cap ids |-> statuses[k]]

\* a list without its i-th element
RemoveAt(seq, i) == SubSeq(seq, 1, i - 1) \o SubSeq(seq, i + 1, Len(seq))

\* sums over the categories 1..n whose category score is numeric
RECURSIVE ScoredWeight(_, _, _)
ScoredWeight(categories, scores, n) ==
  IF n = 0 THEN 0
  ELSE ScoredWeight(categories, scores, n - 1)
       + (IF scores[categories[n].id] # Null THEN categories[n].weight ELSE 0)

RECURSIVE ScoredWeightedSum(_, _, _)
ScoredWeightedSum(categories, scores, n) ==
  IF n = 0 THEN 0
  ELSE ScoredWeightedSum(categories, scores, n - 1)
       + (IF scores[categories[n].id] # Null
          THEN categories[n].weight * scores[categories[n].id][1] ELSE 0)

AnyScored(categories, scores) ==
  \E i \in DOMAIN categories : scores[categories[i].id] # Null

\* ------------------------------------------------------------------------
\* Claims
\* ------------------------------------------------------------------------
\* C1: whenever a category has an answered check, its score is
\* round(100 * earnedWeight / totalWeight) over the answered checks, with the
\* multipliers critical=4, high=3, medium=2, low=1.
C1_CategoryScoreIsRoundedRatio ==
  rendered =>
    \A i \in DOMAIN CATEGORIES :
      LET c == CATEGORIES[i]
      IN  AnyAnswered(c.checks, checkStatuses) =>
            categoryScores[c.id] =
              Num(RoundHalfUp(100 * PassedWeight(c.checks, checkStatuses),
                              AnsweredWeight(c.checks, checkStatuses)))

\* C2: whenever some category is scored and the scored weights do not sum to
\* zero, the overall score is round(sum(weight_i * score_i) / sum(weight_i))
\* over the scored categories, score_i being the rounded category score.
C2_OverallScoreIsRoundedAverage ==
  (rendered /\ AnyScored(CATEGORIES, categoryScores)
            /\ ScoredWeight(CATEGORIES, categoryScores, Len(CATEGORIES)) # 0) =>
    overallScore =
      Num(RoundHalfUp(ScoredWeightedSum(CATEGORIES, categoryScores, Len(CATEGORIES)),
                      ScoredWeight(CATEGORIES, categoryScores, Len(CATEGORIES))))

\* C3: renormalization.  Removing a category whose score is "no score" from
\* the list, or giving it any other weight, leaves the overall score unchanged.
C3_UnscoredCategoryIsIgnored ==
  rendered =>
    \A i \in DOMAIN CATEGORIES :
      categoryScores[CATEGORIES[i].id] = Null =>
        /\ calculateOverallScore(RemoveAt(CATEGORIES, i), checkStatuses) = overallScore
        /\ \A w \in {0, 7, 100} :
             calculateOverallScore([CATEGORIES EXCEPT ![i].weight = w], checkStatuses)
               = overallScore

\* C3 witness: weights 10 and 20, the category of weight 20 scored 80 and the
\* other one untouched: the overall score is 80.
C3_Witness ==
  /\ rendered
  /\ CATEGORIES = ModelRegistry(<<10, 20>>)
  /\ categoryScores["a"] = Null
  /\ categoryScores["b"] = Num(80)
  /\ overallScore = Num(80)

\* C4: a category score is null exactly when no check of the list is answered;
\* a list whose answered checks all failed scores the number 0.
C4_NullIffNothingAnswered ==
  rendered =>
    \A i \in DOMAIN CATEGORIES :
      LET c == CATEGORIES[i]
      IN  /\ categoryScores[c.id] = Null <=> ~AnyAnswered(c.checks, checkStatuses)
          /\ (AnyAnswered(c.checks, checkStatuses)
              /\ PassedWeight(c.checks, checkStatuses) = 0)
               => categoryScores[c.id] = Num(0)

\* C4 witness: category a scores the number 0 with its failed check, category
\* b has only a null entry and scores null.
C4_Witness ==
  /\ rendered
  /\ StatusOf(checkStatuses, "c1") = "fail"
  /\ StatusOf(checkStatuses, "c2") = "null"
  /\ categoryScores["a"] = Num(0)
  /\ categoryScores["b"] = Null

\* C5: the overall score is null exactly when no category has a numeric score
\* or the weights of the scored categories sum to zero.
C5_OverallNullIffNoScoredWeight ==
  rendered =>
    (overallScore = Null <=>
       \/ ~AnyScored(CATEGORIES, categoryScores)
       \/ ScoredWeight(CATEGORIES, categoryScores, Len(CATEGORIES)) = 0)

\* C5 witness: the only scored category has weight 0, so the overall score is
\* null although a category score is numeric.
C5_Witness ==
  /\ rendered
  /\ CATEGORIES = ModelRegistry(<<0, 15>>)
  /\ categoryScores["a"] # Null
  /\ categoryScores["b"] = Null
  /\ overallScore = Null

\* C6: changing one failed check of a category to pass never decreases that
\* category's score.
C6_CategoryMonotone ==
  rendered =>
    \A i \in DOMAIN CATEGORIES :
      \A j \in DOMAIN CATEGORIES[i].checks :
        LET c  == CATEGORIES[i]
            id == c.checks[j].id
        IN  StatusOf(checkStatuses, id) = "fail" =>
              calculateCategoryScore(c.checks, Put(checkStatuses, id, "pass"))[1]
                >= categoryScores[c.id][1]

\* C6 witness: category b scored 0 with its critical and its high check
\* failed; passing the high check raises it to 43.
C6_Witness ==
  /\ rendered
  /\ StatusOf(checkStatuses, "c2") = "fail"
  /\ StatusOf(checkStatuses, "c3") = "fail"
  /\ categoryScores["b"] = Num(0)
  /\ calculateCategoryScore(ModelChecksB, Put(checkStatuses, "c3", "pass")) = Num(43)

\* C7: with non-negative weights and unique check ids, changing one failed
\* check to pass never decreases the overall score.
C7_OverallMonotone ==
  rendered =>
    \A id \in RegistryIds(CATEGORIES) :
      StatusOf(checkStatuses, id) = "fail" =>
        LET after == calculateOverallScore(CATEGORIES, Put(checkStatuses, id, "pass"))
        IN  IF overallScore = Null
            THEN after = Null
            ELSE after # Null /\ after[1] >= overallScore[1]

\* C7 witness: both categories scored (100 and 57, equal weights), and passing
\* the failed check c3 raises the overall score to 100.
C7_Witness ==
  /\ rendered
  /\ CATEGORIES = ModelRegistry(<<10, 10>>)
  /\ StatusOf(checkStatuses, "c3") = "fail"
  /\ categoryScores["a"] = Num(100)
  /\ categoryScores["b"] = Num(57)
  /\ overallScore # Null
  /\ overallScore[1] < 100
  /\ calculateOverallScore(CATEGORIES, Put(checkStatuses, "c3", "pass")) = Num(100)

\* C8: an entry that is null counts like a missing key: the scores of a status
\* map equal the scores of the same map without its null entries.
C8_NullLikeMissing ==
  rendered =>
    /\ RenderCategoryScores(CATEGORIES, DropNulls(checkStatuses)) = categoryScores
    /\ calculateOverallScore(CATEGORIES, DropNulls(checkStatuses)) = overallScore

\* C8 witness: in category b, c2 is null, c3 is missing and c4 failed, so b
\* scores 0; category a is answered too.
C8_Witness ==
  /\ rendered
  /\ StatusOf(checkStatuses, "c2") = "null"
  /\ StatusOf(checkStatuses, "c3") = "undefined"
  /\ StatusOf(checkStatuses, "c4") = "fail"
  /\ StatusOf(checkStatuses, "c1") = "pass"
  /\ categoryScores["b"] = Num(0)
  /\ overallScore # Null

\* C9: entries for ids of no registry check never influence the result: the
\* scores of a status map equal the scores of the map cut down to registry ids.
C9_UnknownIdsIgnored ==
  rendered =>
    LET known == Restrict(checkStatuses, RegistryIds(CATEGORIES))
    IN  /\ RenderCategoryScores(CATEGORIES, known) = categoryScores
        /\ calculateOverallScore(CATEGORIES, known) = overallScore

\* C9 witness: a foreign id holds fail while the registry's own single answer,
\* a pass, gives the overall score 100.
C9_Witness ==
  /\ rendered
  /\ \E u \in UnknownIds : StatusOf(checkStatuses, u) = "fail"
  /\ StatusOf(checkStatuses, "c2") = "pass"
  /\ categoryScores["a"] = Null
  /\ overallScore = Num(100)

\* C10: getScoreRating labels a score by inclusive lower bounds: 80 and above
\* Excellent, 60..79 Good, 40..59 Needs Improvement, below 40 Poor.
C10_RatingBands ==
  rating # Null =>
    rating[1].label =
      (IF scoreArg >= 80 THEN "Excellent"
       ELSE IF scoreArg >= 60 THEN "Good"
       ELSE IF scoreArg >= 40 THEN "Needs Improvement"
       ELSE "Poor")

\* C10 witness: the boundary score 80 has been rated Excellent.
C10_Witness ==
  /\ scoreArg = 80
  /\ rating # Null
  /\ rating[1].label = "Excellent"

\* C11: exact halves round up.  Whenever 100 * earnedWeight / totalWeight of a
\* category lies exactly halfway between two integers (3 of 8, 23 of 40), the
\* category score is the larger of the two, and the overall score follows the
\* same rule for its weighted average of the category scores.
C11_TiesRoundUp ==
  rendered =>
    /\ \A i \in DOMAIN CATEGORIES :
         LET c      == CATEGORIES[i]
             earned == PassedWeight(c.checks, checkStatuses)
             total  == AnsweredWeight(c.checks, checkStatuses)
         IN  (total > 0 /\ (200 * earned) % (2 * total) = total) =>
               categoryScores[c.id] = Num(((100 * earned) \div total) + 1)
    /\ LET sum    == ScoredWeightedSum(CATEGORIES, categoryScores, Len(CATEGORIES))
           weight == ScoredWeight(CATEGORIES, categoryScores, Len(CATEGORIES))
       IN  (weight > 0 /\ (2 * sum) % (2 * weight) = weight) =>
             overallScore = Num((sum \div weight) + 1)

\* C12: a scored category of weight zero contributes nothing: when another
\* scored category has positive weight, the overall score is the same with
\* the zero-weight category removed from the list.
C12_ZeroWeightIgnored ==
  rendered =>
    \A i \in DOMAIN CATEGORIES :
      (/\ CATEGORIES[i].weight = 0
       /\ categoryScores[CATEGORIES[i].id] # Null
       /\ \E j \in DOMAIN CATEGORIES :
            /\ j # i
            /\ CATEGORIES[j].weight > 0
            /\ categoryScores[CATEGORIES[j].id] # Null)
        => calculateOverallScore(RemoveAt(CATEGORIES, i), checkStatuses) = overallScore

\* C12 witness: category b has weight 0 and scores 57, category a has weight
\* 20 and scores 100: the overall score is 100.
C12_Witness ==
  /\ rendered
  /\ CATEGORIES = ModelRegistry(<<20, 0>>)
  /\ categoryScores["a"] = Num(100)
  /\ categoryScores["b"] = Num(57)
  /\ overallScore = Num(100)

\* a result that is an integer of the closed range 0..100
IsPercent(number) == Len(number) = 1 /\ number[1] \in 0..100

\* C13: every numeric result of calculateCategoryScore is an integer of the
\* closed range [0,100], whatever the status map holds (pass, fail, null or
\* nothing) for the checks.
C13_CategoryScoreInRange ==
  rendered =>
    \A i \in DOMAIN CATEGORIES :
      \/ categoryScores[CATEGORIES[i].id] = Null
      \/ IsPercent(categoryScores[CATEGORIES[i].id])

\* C13 witness: both ends of the range at once, category a scored 0 and
\* category b, with all its checks passed, scored 100.
C13_Witness ==
  /\ rendered
  /\ categoryScores["a"] = Num(0)
  /\ categoryScores["b"] = Num(100)
  /\ \A j \in DOMAIN ModelChecksB : StatusOf(checkStatuses, ModelChecksB[j].id) = "pass"

\* C14: every numeric result of calculateOverallScore is an integer of the
\* closed range [0,100], for non-negative category weights.
C14_OverallScoreInRange ==
  rendered => (overallScore = Null \/ IsPercent(overallScore))

\* C14 witness: weights 50 and 50, category scores 100 and 0: overall 50.
C14_Witness ==
  /\ rendered
  /\ CATEGORIES = ModelRegistry(<<50, 50>>)
  /\ categoryScores["a"] = Num(100)
  /\ categoryScores["b"] = Num(0)
  /\ overallScore = Num(50)

IsFiniteInteger(number) == Len(number) = 1 /\ number[1] \in Int

\* C16: on well-formed input each function completes with a defined result:
\* the two score functions with null or a finite integer (never NaN, never
\* the outcome of a division by zero), the rating function with a record of
\* label, colour and background.
C16_DefinedResults ==
  /\ rendered =>
       /\ \A i \in DOMAIN CATEGORIES :
            \/ categoryScores[CATEGORIES[i].id] = Null
            \/ IsFiniteInteger(categoryScores[CATEGORIES[i].id])
       /\ overallScore = Null \/ IsFiniteInteger(overallScore)
  /\ rating # Null =>
       /\ DOMAIN rating[1] = {"label", "color", "bgColor"}
       /\ rating[1].label \in {"Excellent", "Good", "Needs Improvement", "Poor"}

\* C16 witness: the only scored category has weight 0, so totalWeight is 0
\* when the overall result is formed, and the result is null.
C16_Witness ==
  /\ rendered
  /\ CATEGORIES = ModelRegistry(<<0, 15>>)
  /\ StatusOf(checkStatuses, "c1") = "fail"
  /\ categoryScores["a"] = Num(0)
  /\ categoryScores["b"] = Null
  /\ overallScore = Null
  /\ rating = Null

\* a list with its j-th and k-th elements exchanged
Swap(seq, j, k) ==
  [m \in DOMAIN seq |-> IF m = j THEN seq[k] ELSE IF m = k THEN seq[j] ELSE seq[m]]

\* a list rearranged by the permutation p of its indices
Permute(seq, p) == [m \in DOMAIN seq |-> seq[p[m]]]

\* C17: scoring is independent of order.  Exchanging two neighbouring checks
\* of a category (these exchanges generate every permutation) changes neither
\* that category's score nor the overall score, and no permutation of the
\* categories changes the overall score.
C17_OrderIndependent ==
  rendered =>
    /\ \A i \in DOMAIN CATEGORIES :
         \A j \in DOMAIN CATEGORIES[i].checks :
           j < Len(CATEGORIES[i].checks) =>
             LET swapped == Swap(CATEGORIES[i].checks, j, j + 1)
             IN  /\ calculateCategoryScore(swapped, checkStatuses)
                      = categoryScores[CATEGORIES[i].id]
                 /\ calculateOverallScore([CATEGORIES EXCEPT ![i].checks = swapped],
                                          checkStatuses) = overallScore
    /\ \A p \in Permutations(DOMAIN CATEGORIES) :
         calculateOverallScore(Permute(CATEGORIES, p), checkStatuses) = overallScore

\* C18: in every reachable state of the wizard the scores the page holds are
\* the engine's results for the current registry and status map: no stale
\* score survives a change of the status map or of the step.
C18_ScoresFollowStatuses ==
  /\ categoryScores = RenderCategoryScores(CATEGORIES, checkStatuses)
  /\ overallScore = calculateOverallScore(CATEGORIES, checkStatuses)

\* C18 witness: on the second category, after c1 was passed, c2 answered and
\* un-answered again and c3 failed: the categories score 100 and 0, overall 33.
C18_Witness ==
  /\ currentStep = 1
  /\ StatusOf(checkStatuses, "c1") = "pass"
  /\ StatusOf(checkStatuses, "c2") = "null"
  /\ StatusOf(checkStatuses, "c3") = "fail"
  /\ categoryScores["a"] = Num(100)
  /\ categoryScores["b"] = Num(0)
  /\ overallScore = Num(33)

\* the role the specification gives a rating label
RoleOfLabel(label) ==
  IF label \in {"Excellent", "Good"} THEN "success"
  ELSE IF label = "Needs Improvement" THEN "warning"
  ELSE "error"

\* C19: Excellent and Good share one colour role and one background role
\* (success), Needs Improvement has another (warning) and Poor a third
\* (error): two scores get the same colours exactly when their labels have
\* the same role.
C19_RatingRoles ==
  rating # Null =>
    LET r == rating[1]
    IN  /\ r.color = (CASE RoleOfLabel(r.label) = "success" -> "var(--success)"
                        [] RoleOfLabel(r.label) = "warning" -> "var(--warning)"
                        [] RoleOfLabel(r.label) = "error"   -> "var(--error)")
        /\ r.bgColor = (CASE RoleOfLabel(r.label) = "success" -> "var(--success-light)"
                          [] RoleOfLabel(r.label) = "warning" -> "var(--warning-light)"
                          [] RoleOfLabel(r.label) = "error"   -> "var(--error-light)")
        /\ \A other \in 0..100 :
             LET q == getScoreRating(other)
             IN  /\ (q.color = r.color) <=> (RoleOfLabel(q.label) = RoleOfLabel(r.label))
                 /\ (q.bgColor = r.bgColor) <=> (RoleOfLabel(q.label) = RoleOfLabel(r.label))

\* C19 witness: the score 60 has been rated Good and carries the success
\* colours that the score 100, rated Excellent, carries too.
C19_Witness ==
  /\ scoreArg = 60
  /\ rating # Null
  /\ rating[1].label = "Good"
  /\ rating[1].color = "var(--success)"
  /\ getScoreRating(100).label = "Excellent"
  /\ getScoreRating(100).color = rating[1].color
  /\ getScoreRating(100).bgColor = rating[1].bgColor

\* C20: whatever the brand types, in any order and with repetitions, the
\* registry built for them holds every category id once and every check id
\* once across all its categories.
C20_RegistryIdsUnique ==
  CATEGORIES # <<>> =>
    /\ \A i, k \in DOMAIN CATEGORIES : i # k => CATEGORIES[i].id # CATEGORIES[k].id
    /\ Cardinality(RegistryIds(CATEGORIES)) = Cardinality(CheckPositions(CATEGORIES))

\* C20 witness: local named twice around ecommerce: eleven categories, the
\* ecommerce ones first, and all of the 144 checks.
C20_Witness ==
  /\ brandTypes = <<"local", "ecommerce", "local">>
  /\ Len(CATEGORIES) = 11
  /\ CATEGORIES[1].id = "ecommerce-collection"
  /\ CATEGORIES[3].id = "local-gbp"
  /\ Cardinality(RegistryIds(CATEGORIES)) = 144

\* the sections of AnalysisResult
AnalysisSections ==
  {"url", "fetchedAt", "robotsTxt", "sitemap", "meta", "headings", "schema",
   "pages", "social", "technical"}

\* the request failed: no body, no url, a url that is no string or does not
\* parse, or a page that could not be fetched
RequestFailed ==
  \/ request.json = "malformed"
  \/ IsFalsy(request.url)
  \/ request.url.kind # "string"
  \/ ~UrlParses(NormalizeUrl(request.url))
  \/ fetchError # ""

\* C21: on every failure the endpoint answers with a response whose body has
\* an error string and every section of AnalysisResult.
C21_FailuresAreComplete ==
  (postPc = "done" /\ RequestFailed) =>
    /\ response # Null
    /\ "error" \in DOMAIN response.body
    /\ AnalysisSections \subseteq DOMAIN response.body

\* a reader of CSV text: cells are split at commas and rows at line breaks
\* outside quotes, and a doubled quote inside quotes is one quote
RECURSIVE ReadCellFrom(_, _, _, _)
ReadCellFrom(content, i, inQuotes, cell) ==
  IF i > Len(content) THEN [cell |-> cell, next |-> i, end |-> "eof"]
  ELSE IF inQuotes
  THEN IF content[i] # QUOTE
       THEN ReadCellFrom(content, i + 1, TRUE, Append(cell, content[i]))
       ELSE IF i < Len(content) /\ content[i + 1] = QUOTE
       THEN ReadCellFrom(content, i + 2, TRUE, Append(cell, QUOTE))
       ELSE ReadCellFrom(content, i + 1, FALSE, cell)
  ELSE IF content[i] = QUOTE THEN ReadCellFrom(content, i + 1, TRUE, cell)
  ELSE IF content[i] = COMMA THEN [cell |-> cell, next |-> i + 1, end |-> "comma"]
  ELSE IF content[i] = NEWLINE THEN [cell |-> cell, next |-> i + 1, end |-> "newline"]
  ELSE ReadCellFrom(content, i + 1, FALSE, Append(cell, content[i]))

RECURSIVE ReadRowFrom(_, _, _)
ReadRowFrom(content, i, row) ==
  LET read == ReadCellFrom(content, i, FALSE, <<>>)
  IN  IF read.end = "comma"
      THEN ReadRowFrom(content, read.next, Append(row, read.cell))
      ELSE [row |-> Append(row, read.cell), next |-> read.next, end |-> read.end]

RECURSIVE ReadRowsFrom(_, _, _)
ReadRowsFrom(content, i, rows) ==
  LET read == ReadRowFrom(content, i, <<>>)
  IN  IF read.end = "newline"
      THEN ReadRowsFrom(content, read.next, Append(rows, read.row))
      ELSE Append(rows, read.row)

ReadCsv(content) == ReadRowsFrom(content, 1, <<>>)

\* the checks of a category list in registry order, each with its category
RECURSIVE ChecksInOrder(_, _)
ChecksInOrder(categories, i) ==
  IF i > Len(categories) THEN <<>>
  ELSE [j \in DOMAIN categories[i].checks |->
          [category |-> categories[i], check |-> categories[i].checks[j]]]
       \o ChecksInOrder(categories, i + 1)

StatusLabel(id) ==
  CASE StatusOf(checkStatuses, id) = "pass" -> <<"Pass">>
    [] StatusOf(checkStatuses, id) = "fail" -> <<"Fail">>
    [] OTHER -> <<"Not Answered">>

TierLabel(tier) ==
  CASE tier = "critical" -> <<"Critical">>
    [] tier = "high" -> <<"High">>
    [] tier = "medium" -> <<"Medium">>
    [] tier = "low" -> <<"Low">>

\* the rows after the header: one per check in registry order, seven fields
CsvBodyAsStated(rows) ==
  LET checks == ChecksInOrder(CATEGORIES, 1)
  IN  /\ Len(rows) = Len(checks) + 1
      /\ \A k \in DOMAIN checks :
           rows[k + 1] =
             <<checks[k].category.name, TierLabel(checks[k].check.importance),
               checks[k].check.name, checks[k].check.description,
               StatusLabel(checks[k].check.id),
               IF checks[k].check.id \in DOMAIN checkNotes
                 THEN checkNotes[checks[k].check.id] ELSE <<>>,
               IF checks[k].check.id \in DOMAIN checkLinks
                 THEN checkLinks[checks[k].check.id] ELSE <<>>>>

\* C22 as stated: the exported file reads as a header row Category, Priority,
\* Check Name, Description, Status, Notes, Link and one row per check of the
\* registry, in registry order, with these seven fields.
C22_CsvAsStated ==
  csv # Null =>
    /\ ReadCsv(csv)[1] = <<<<"Category">>, <<"Priority">>, <<"Check Name">>,
                           <<"Description">>, <<"Status">>, <<"Notes">>, <<"Link">>>>
    /\ CsvBodyAsStated(ReadCsv(csv))

\* C22 amended: the header row names the seventh column Links/Docs; the rest
\* is as stated: one row per check in registry order, with category, priority,
\* name, description, status (Pass, Fail, Not Answered for a null or absent
\* status), note and link (empty when none is stored).
C22_CsvRows ==
  csv # Null =>
    /\ ReadCsv(csv)[1] = <<<<"Category">>, <<"Priority">>, <<"Check Name">>,
                           <<"Description">>, <<"Status">>, <<"Notes">>, <<"Links/Docs">>>>
    /\ CsvBodyAsStated(ReadCsv(csv))

\* an export with a check answered null, a check absent from the map and a
\* note that holds a quote
C22_Witness ==
  /\ csv # Null
  /\ \E id \in RegistryIds(CATEGORIES) : StatusOf(checkStatuses, id) = "null"
  /\ \E id \in RegistryIds(CATEGORIES) : StatusOf(checkStatuses, id) = "undefined"
  /\ \E id \in DOMAIN checkNotes : \E k \in DOMAIN checkNotes[id] : checkNotes[id][k] = QUOTE

\* the checks of the categories before the current one
EarlierChecks ==
  {pos \in CheckPositions(CATEGORIES) : pos[1] <= currentStep}

\* C23: in every reachable state of the wizard every check of the categories
\* before the current step is answered pass or fail, also after the user went
\* back and took answers of an earlier category away.
C23_EarlierCategoriesAnswered ==
  \A pos \in EarlierChecks :
    StatusOf(checkStatuses, CATEGORIES[pos[1]].checks[pos[2]].id) \in {"pass", "fail"}

\* C23 witness: back on the first category with its check un-answered, the
\* second category still answered from the first visit
C23_Witness ==
  /\ currentStep = 0
  /\ StatusOf(checkStatuses, "c1") = "null"
  /\ \A j \in DOMAIN CATEGORIES[2].checks :
       StatusOf(checkStatuses, CATEGORIES[2].checks[j].id) \in {"pass", "fail"}

\* every category of every registry a list of brand types gives has a check
\* and a positive weight
RegistriesScorable ==
  \A n \in 1..MaxBrandTypes : \A types \in [1..n -> BrandType] :
    LET categories == getCategoriesForBrandTypes(types)
    IN  \A i \in DOMAIN categories :
          /\ categories[i].weight > 0
          /\ \E j \in DOMAIN categories[i].checks :
               importanceMultipliers(categories[i].checks[j].importance) > 0

\* C24: on the results screen every category score and the overall score are
\* numbers and the rating exists, so the score card and the category breakdown
\* never show their placeholders; every registry of the brand types has the
\* shape this rests on (no empty category, no weight of zero).
C24_ResultsAreNumeric ==
  isResultsScreen =>
    /\ \A cid \in DOMAIN categoryScores :
         categoryScores[cid] # Null /\ IsFiniteInteger(categoryScores[cid])
    /\ overallScore # Null /\ IsFiniteInteger(overallScore)
    /\ resultsRating # Null
    /\ RegistriesScorable

\* C24 witness: the results screen after every check was failed (the scores
\* are 0, the case a test for truthiness would take for no score)
C24_Witness ==
  /\ isResultsScreen
  /\ \A id \in RegistryIds(CATEGORIES) : StatusOf(checkStatuses, id) = "fail"
  /\ overallScore = Num(0)

\* C25: in every reachable state of the wizard the step is at least 0 and at
\* most the number of categories.
C25_StepInRange == currentStep \in 0..Len(CATEGORIES)

\* C25 witness: the results screen, the last step
C25_Witness == currentStep = Len(CATEGORIES) /\ Len(CATEGORIES) > 0

\* what a press of a button makes of a status, as the claim states it
PressAsStated(button, status) == IF status = button THEN "null" ELSE button

\* the last press and, when the press before it was of the same button on
\* the same check, that press
LastPress == presses.last[Len(presses.last)]

IsDoublePress ==
  /\ Len(presses.last) = 2
  /\ presses.last[1].id = presses.last[2].id
  /\ presses.last[1].button = presses.last[2].button

\* every press toggles as stated, and after a double press on a check that
\* was unanswered the scores are those shown before the first press
TogglesAsStated ==
  /\ presses.last # <<>> =>
       StatusProp(LastPress.id) = PressAsStated(LastPress.button, LastPress.before)
  /\ IsDoublePress =>
       /\ presses.last[2].before
            = PressAsStated(presses.last[1].button, presses.last[1].before)
       /\ presses.last[1].before = "null" =>
            /\ StatusProp(LastPress.id) = "null"
            /\ categoryScores = presses.last[1].categoryScores
            /\ overallScore = presses.last[1].overallScore

\* C26 as stated: a press of Pass (of Fail) on a check that is pass (fail)
\* makes it unanswered, on any other check pass (fail); two presses of the
\* same button in a row leave the check answered if it was answered and
\* unanswered if it was unanswered, with the scores of before when it was
\* unanswered.
C26_DoublePressRestores ==
  /\ TogglesAsStated
  /\ IsDoublePress =>
       (StatusProp(LastPress.id) = "null" <=> presses.last[1].before = "null")

\* C26 amended: two presses of the same button in a row restore the status of
\* a check that was unanswered or had the status of that button; a check that
\* had the other status is left unanswered.
C26_DoublePress ==
  /\ TogglesAsStated
  /\ IsDoublePress =>
       StatusProp(LastPress.id) =
         (IF presses.last[1].before = presses.last[1].button
          THEN presses.last[1].before ELSE "null")

\* C26 witness: Pass pressed twice on an unanswered check of the second
\* category, after another check of it was failed
C26_Witness ==
  /\ IsDoublePress
  /\ LastPress.button = "pass"
  /\ presses.last[1].before = "null"
  /\ currentStep = 1
  /\ \E id \in RegistryIds(CATEGORIES) : StatusOf(checkStatuses, id) = "fail"

\* C27: a step that changes the status map changes the entry of one check
\* and leaves the notes, the links and the step alone; a step that changes
\* the notes (the links) changes the note (the link) of one check and leaves
\* the links (the notes), the status map and every score alone.
C27_Frame ==
  [][/\ checkStatuses' # checkStatuses =>
          /\ \E id \in RegistryIds(CATEGORIES) :
               /\ DOMAIN checkStatuses' = DOMAIN checkStatuses \cup {id}
               /\ \A k \in DOMAIN checkStatuses : k # id => checkStatuses'[k] = checkStatuses[k]
          /\ UNCHANGED <<checkNotes, checkLinks, currentStep>>
     /\ checkNotes' # checkNotes =>
          /\ \E id \in RegistryIds(CATEGORIES) :
               /\ DOMAIN checkNotes' = DOMAIN checkNotes \cup {id}
               /\ \A k \in DOMAIN checkNotes : k # id => checkNotes'[k] = checkNotes[k]
          /\ UNCHANGED <<checkLinks, checkStatuses, categoryScores, overallScore>>
     /\ checkLinks' # checkLinks =>
          /\ \E id \in RegistryIds(CATEGORIES) :
               /\ DOMAIN checkLinks' = DOMAIN checkLinks \cup {id}
               /\ \A k \in DOMAIN checkLinks : k # id => checkLinks'[k] = checkLinks[k]
          /\ UNCHANGED <<checkNotes, checkStatuses, categoryScores, overallScore>>
    ]_vars

\* C27 witness: a check with a note and a link whose answer was taken away,
\* next to a check that is still answered
C27_Witness ==
  /\ "c2" \in DOMAIN checkNotes
  /\ "c2" \in DOMAIN checkLinks
  /\ StatusOf(checkStatuses, "c2") = "null"
  /\ StatusOf(checkStatuses, "c3") = "fail"
  /\ StatusOf(checkStatuses, "c1") = "pass"

\* the number of checks of the registry
RegistrySize == Cardinality(CheckPositions(CATEGORIES))

\* C28: on the results screen the failed checks counted from the values of
\* the status map are as many as the failed checks counted over the registry
\* by priority, and passed plus failed is the number of checks of the
\* registry.
C28_CountersConsistent ==
  isResultsScreen =>
    /\ failedChecks = totalFailed
    /\ totalAnswered = RegistrySize

\* C28 witness: the results screen with a check passed and checks of the
\* second category failed
C28_Witness ==
  /\ isResultsScreen
  /\ passedChecks >= 1
  /\ failedChecks >= 2
  /\ failedByPriority("critical") = 1

\* C29: a PDF generation that has set isGeneratingPdf sets it back in the
\* end, whether its blocks are drawn or one of them throws, and never are two
\* generations in progress: the flag is true exactly while one is.
C29_PdfFlag ==
  /\ [](Len(pdfPc) <= 1 /\ (isGeneratingPdf <=> Len(pdfPc) = 1))
  /\ (isGeneratingPdf ~> ~isGeneratingPdf)

\* C29 witness: a generation in progress that has drawn the summary and
\* waits for the last block of the detailed section
C29_Witness ==
  /\ isGeneratingPdf
  /\ Len(pdfPc) = 1
  /\ pdfPc[1].summary = 0
  /\ pdfPc[1].detailed = 1

\* the category ids in the fixed order of the claim, each with the brand
\* type that brings it in ("base" for the seven base categories)
FixedOrder ==
  << <<"ecommerce-collection", "ecommerce">>, <<"ecommerce-product", "ecommerce">>,
     <<"local-gbp", "local">>, <<"local-landing", "local">>,
     <<"international", "international">>,
     <<"authority", "base">>, <<"on-page", "base">>, <<"technical", "base">>,
     <<"eeat", "base">>, <<"social-search", "base">>, <<"ai-search", "base">>,
     <<"performance", "base">> >>

\* the brand types that occur in the list, as a set
TypesNamed == {brandTypes[k] : k \in DOMAIN brandTypes}

IsBroughtIn(entry) == entry[2] = "base" \/ entry[2] \in TypesNamed

ExpectedIds == [k \in DOMAIN SelectSeq(FixedOrder, IsBroughtIn) |->
                  SelectSeq(FixedOrder, IsBroughtIn)[k][1]]

\* C30: the registry built for a list of brand types holds the
\* brand-specific categories first, in the order ecommerce (collection,
\* product), local (GBP, landing), international, each group exactly when its
\* brand type occurs in the list, then the seven base categories in their
\* order; it depends on the set of types named only, and general or an
\* unknown type adds nothing.
C30_CategoryOrder ==
  CATEGORIES # <<>> =>
    /\ [k \in DOMAIN CATEGORIES |-> CATEGORIES[k].id] = ExpectedIds
    /\ \A other \in Permutations(DOMAIN brandTypes) :
         CATEGORIES = getCategoriesForBrandTypes([k \in DOMAIN brandTypes |-> brandTypes[other[k]]])
    /\ CATEGORIES = getCategoriesForBrandTypes(
                      SelectSeq(<<"ecommerce", "local", "international">>,
                                LAMBDA t : t \in TypesNamed))

\* C30 witness: international named twice, before and after local: the two
\* categories of local, international once, then the base categories
C30_Witness ==
  /\ brandTypes = <<"international", "local", "international">>
  /\ Len(CATEGORIES) = 10
  /\ CATEGORIES[1].id = "local-gbp"
  /\ CATEGORIES[3].id = "international"
  /\ CATEGORIES[4].id = "authority"

====
